---- MODULE Spec2Model ----
(***************************************************************************)
(* Model of the content API of thontrangliennhat-api.                      *)
(*                                                                         *)
(* The Express content server (server-express.js, src/unnamed/part_003)    *)
(* keeps every collection in one JSON document on disk.  Each handler      *)
(* loads the document with getDatabase, changes it in memory and writes    *)
(* the whole document back.  Handlers run synchronously to completion on   *)
(* the single JavaScript thread of the server process, so one handler is   *)
(* one action.                                                             *)
(*                                                                         *)
(* Text values are sequences of characters (a character is a one-element   *)
(* atom such as "T"; accented letters carry ASCII names such as            *)
(* "a_acute").  Timestamps (createdAt, updatedAt, ...) are not modelled.   *)
(***************************************************************************)
EXTENDS Integers, Sequences, FiniteSets, TLC

VARIABLES
    NODE_ENV,   \* process.env.NODE_ENV of the server process
    resource,   \* the resource the client session addresses
    files,      \* the database.json copies on disk, by location
    req,        \* the request handled last
    res,        \* the response sent last
    faults,     \* number of failed disk writes so far
    server,     \* the server variant that runs: server-express or json-server
    DATABASE,   \* the in-memory document of the json-server variant
    ret,        \* the last direct call of getDatabase, writeDatabase or res.json,
                \* or the request that travels the middleware stack
    disk,       \* the image files that exist, as directory and file name
    imgReq,     \* the image request resolved last
    imgRes,     \* the response to it
    inflight    \* the update requests the server has accepted, by client

vars ==
    <<NODE_ENV, resource, files, req, res, faults, server, DATABASE, ret,
      disk, imgReq, imgRes, inflight>>

\* the image files and the last image request
imageVars == <<disk, imgReq, imgRes>>

\* what a handler of the Express content server leaves alone
expressFrame == <<NODE_ENV, resource, server, DATABASE, ret, imgReq, imgRes, inflight>>

(***************************************************************************)
(* Bounds of the model.                                                    *)
(***************************************************************************)
MaxId == 3          \* largest record id a create may assign
MaxFaults == 1      \* failed disk writes per behaviour
MaxNameLen == 3     \* longest product name drawn for the slug property

(***************************************************************************)
(* JavaScript values.                                                      *)
(***************************************************************************)
Undef == <<"undefined">>
Null == <<"null">>

\* undefined, null and "" are falsy
Falsy(v) == v \in {Undef, Null, <<>>}

\* a || b without its right-hand side
OrLeft(a, b) == a

\* a || b
Or(a, b) == IF Falsy(a) THEN b ELSE a

\* An images value: undefined, one string, or an array of strings.
\* Paths are atomic strings.
UndefImages == [arr |-> FALSE, v |-> <<>>]
ImgString(p) == [arr |-> FALSE, v |-> <<p>>]
ImgArray(ps) == [arr |-> TRUE, v |-> ps]

UndefPath == "undefined"
FalsyPath(p) == p \in {UndefPath, ""}

sTest == <<"T", "e", "s", "t">>
sAb == <<"A", " ", "b">>
sS1 == <<"s", "1">>
sS2 == <<"s", "2">>
sC1 == <<"c", "1">>
sNine == <<"9">>

(***************************************************************************)
(* Records and the document.                                               *)
(***************************************************************************)
BlankRec ==
    [id |-> 0, name |-> Undef, title |-> Undef, slug |-> Undef,
     summary |-> Undef, content |-> Undef, description |-> Undef,
     price |-> Undef, position |-> Undef,
     avatar |-> UndefPath, image |-> UndefPath, url |-> UndefPath,
     images |-> UndefImages]

ArrayKeys ==
    {"products", "services", "experiences", "team", "news", "images",
     "videos", "contacts", "categories", "users"}

sTrangChu == <<"T", "r", "a", "n", "g", " ", "c", "h", "u_hook">>
sTrangChuSlug == <<"t", "r", "a", "n", "g", "-", "c", "h", "u">>

\* src/unnamed/part_003:4022-4030
DefaultNavigation ==
    << [id |-> 1, title |-> sTrangChu, slug |-> sTrangChuSlug, children |-> <<>>] >>

EmptyDoc ==
    [products |-> <<>>, services |-> <<>>, experiences |-> <<>>, team |-> <<>>,
     news |-> <<>>, images |-> <<>>, videos |-> <<>>, contacts |-> <<>>,
     categories |-> <<>>, users |-> <<>>, navigation |-> <<>>]

\* The document getDatabase returns from its outer catch.
DefaultTeamMember ==
    [BlankRec EXCEPT !.id = 1,
                     !.name = <<"D", "e", "f">>,
                     !.position = <<"M">>,
                     !.avatar = "/images/placeholder.jpg",
                     !.image = "/images/placeholder.jpg",
                     !.description = <<"d">>]

CatchDefaultDoc ==
    [EmptyDoc EXCEPT !.team = <<DefaultTeamMember>>,
                     !.navigation = DefaultNavigation]

(***************************************************************************)
(* Files.  A database file is missing, holds text that is not JSON,        *)
(* holds a JSON value that is not an object (null), or holds an object;    *)
(* keys is the set of collection keys the object has as arrays.            *)
(***************************************************************************)
MissingFile == [kind |-> "missing", keys |-> {}, doc |-> EmptyDoc]
MalformedFile == [kind |-> "malformed", keys |-> {}, doc |-> EmptyDoc]
NullFile == [kind |-> "nonobject", keys |-> {}, doc |-> EmptyDoc]
AllKeys == ArrayKeys \cup {"navigation"}
JsonFile(d) == [kind |-> "json", keys |-> AllKeys, doc |-> d]

WriteOutcomes == {"ok", "eacces"}

\* a write that reports its outcome and stores nothing
writeFileSyncDropped(fs, path, content, outcome) == fs

\* fs.writeFileSync(path, text): on success the file holds the text; a
\* write that fails throws and leaves the file as it was.
writeFileSync(fs, path, content, outcome) ==
    IF outcome = "ok" THEN [fs EXCEPT ![path] = content] ELSE fs

\* src/unnamed/part_003:3987-3989, 4090-4092
dbPath(env) == IF env = "production" THEN "tmp" ELSE "app"

\* Array.isArray(db[k]) ? db[k] : []
ArrayOrEmpty(f, k) == IF f.kind = "json" /\ k \in f.keys THEN f.doc[k] ELSE <<>>

\* src/unnamed/part_003:4008-4038
Normalize(f) ==
    [products |-> ArrayOrEmpty(f, "products"),
     services |-> ArrayOrEmpty(f, "services"),
     experiences |-> ArrayOrEmpty(f, "experiences"),
     team |-> ArrayOrEmpty(f, "team"),
     news |-> ArrayOrEmpty(f, "news"),
     images |-> ArrayOrEmpty(f, "images"),
     videos |-> ArrayOrEmpty(f, "videos"),
     contacts |-> ArrayOrEmpty(f, "contacts"),
     categories |-> ArrayOrEmpty(f, "categories"),
     users |-> ArrayOrEmpty(f, "users"),
     navigation |-> IF Len(ArrayOrEmpty(f, "navigation")) = 0
                    THEN DefaultNavigation
                    ELSE ArrayOrEmpty(f, "navigation")]

\* a getDatabase that returns the document and writes nothing back
getDatabaseNoRepair(fs, env, repair) ==
    LET f == fs[dbPath(env)]
    IN  IF f.kind = "nonobject"
        THEN [db |-> CatchDefaultDoc, files |-> fs]
        ELSE [db |-> Normalize(f), files |-> fs]

\* getDatabase: the document returned and the files afterwards.
\* A file that holds null makes `db.products = ...` throw: the outer catch
\* returns the fallback document and nothing is written.
getDatabase(fs, env, repair) ==
    LET f == fs[dbPath(env)]
    IN  IF f.kind = "nonobject"
        THEN [db |-> CatchDefaultDoc, files |-> fs]
        ELSE [db |-> Normalize(f),
              files |-> writeFileSync(fs, dbPath(env), JsonFile(Normalize(f)), repair)]

\* src/unnamed/part_003:4101-4126: the copy writeDatabase serializes
safeDb(db) ==
    [db EXCEPT !.navigation = IF Len(@) = 0 THEN DefaultNavigation ELSE @]

\* a writeDatabase that reports the failure of either write
writeDatabaseBothWrites(fs, env, db, primary, parent) ==
    LET text == JsonFile(safeDb(db))
        afterPrimary == writeFileSync(fs, dbPath(env), text, primary)
    IN  IF primary # "ok"
        THEN [ok |-> FALSE, files |-> afterPrimary]
        ELSE [ok |-> parent = "ok",
              files |-> writeFileSync(afterPrimary, "parent", text, parent)]

\* writeDatabase: the value returned and the files afterwards.  A failed
\* primary write is caught and answered with false; the sibling copy in the
\* parent directory is attempted only after the primary write and its
\* failure is swallowed.
writeDatabase(fs, env, db, primary, parent) ==
    LET text == JsonFile(safeDb(db))
        afterPrimary == writeFileSync(fs, dbPath(env), text, primary)
    IN  IF primary # "ok"
        THEN [ok |-> FALSE, files |-> afterPrimary]
        ELSE [ok |-> TRUE, files |-> writeFileSync(afterPrimary, "parent", text, parent)]

(***************************************************************************)
(* Requests and responses.                                                 *)
(***************************************************************************)
BlankBody ==
    [name |-> Undef, title |-> Undef, slug |-> Undef, summary |-> Undef,
     content |-> Undef, description |-> Undef, price |-> Undef,
     position |-> Undef, image |-> UndefPath, url |-> UndefPath,
     images |-> UndefImages, keep |-> <<>>, id |-> 0, parentId |-> 0]

\* req.query of the product list: 0 and "" stand for a parameter left out
NoQuery == [category |-> 0, featured |-> "", limit |-> 0]

\* A request: its route, its id, its body, the names of its files, and the
\* outcome fs.unlinkSync has while it is handled.
NoReq ==
    [op |-> "none", coll |-> "none", id |-> 0, body |-> BlankBody, upl |-> <<>>,
     unlink |-> "ok", query |-> NoQuery]

Req(op, coll, id, body, upl) ==
    [op |-> op, coll |-> coll, id |-> id, body |-> body, upl |-> upl, unlink |-> "ok",
     query |-> NoQuery]

\* A response: the HTTP status and the JSON body handed to res.json.
\* statusCode 0 stands for a body without a statusCode field; dataKind says
\* what the body's data field holds.
Body(statusCode, message, dataKind, data) ==
    [statusCode |-> statusCode, message |-> message, dataKind |-> dataKind, data |-> data]

\* an envelope that wraps every body, standard or not
envelopeAlways(status, body) ==
    [status |-> status, statusCode |-> status, message |-> "Success",
     dataKind |-> "record", data |-> body.data]

\* an envelope that leaves a missing or null data as it is
envelopeKeepsNull(status, body) ==
    LET std == IF body.statusCode # 0
               THEN body
               ELSE [statusCode |-> status, message |-> "Success",
                     dataKind |-> body.dataKind, data |-> body.data]
    IN  [status |-> status,
         statusCode |-> std.statusCode,
         message |-> std.message,
         dataKind |-> std.dataKind,
         data |-> std.data]

\* src/unnamed/part_003:53-93: res.json on a path under /api/
envelope(status, body) ==
    LET std == IF body.statusCode # 0
               THEN body
               ELSE [statusCode |-> status, message |-> "Success",
                     dataKind |-> body.dataKind, data |-> body.data]
    IN  [status |-> status,
         statusCode |-> std.statusCode,
         message |-> std.message,
         dataKind |-> IF std.dataKind \in {"none", "null"} THEN "array" ELSE std.dataKind,
         data |-> IF std.dataKind \in {"none", "null"} THEN <<>> ELSE std.data]

\* req.path.startsWith('/api/')
pathStartsWithApi(path) == path \in {"/api/users", "/api/products/1"}

\* originalJson.call(this, data): the body is sent as it is
originalJson(status, body) ==
    [status |-> status, statusCode |-> body.statusCode, message |-> body.message,
     dataKind |-> body.dataKind, data |-> body.data]

\* the res.json the middleware installs on every response.  Every call
\* site hands it an array or an object, so the last rule, which boxes a
\* primitive data on a path that ends in an id, changes nothing here.
resJson(path, status, body) ==
    IF ~pathStartsWithApi(path) THEN originalJson(status, body) ELSE envelope(status, body)

NoRes == [status |-> 0, statusCode |-> 0, message |-> "", dataKind |-> "none", data |-> BlankRec]

\* res.status(s).json({statusCode: s, message: m, data: rec})
Json(status, statusCode, message, dataKind, data) ==
    envelope(status, Body(statusCode, message, dataKind, data))

\* the two clients whose updates the server has in flight, and what the
\* server knows of each: how far the request is, the id it names, its
\* place in the order the handlers ran, whether the other request was
\* already accepted when its handler ran, and the status it was answered
Clients == {"A", "B"}

NoInflight ==
    [c \in Clients |->
        [stage |-> "idle", id |-> 0, seq |-> 0, overlapped |-> FALSE, status |-> 0]]

(***************************************************************************)
(* Image files.  A file name is its stem and its extension; a directory is *)
(* the sequence of its segments below the directory of the server.         *)
(***************************************************************************)
Name(stem, ext) == [stem |-> stem, ext |-> ext]

File(dir, name) == [dir |-> dir, name |-> name]

NoFile == File(<<>>, Name("", ""))

\* fs.existsSync
existsSync(d, f) == f \in d

\* path.join('/tmp', 'uploads')
UPLOADS_DIR == <<"/tmp", "uploads">>

\* path.basename of the image paths records hold
basename(p) ==
    CASE p = "/images/uploads/a.jpg" -> Name("a", ".jpg")
      [] p = "/images/uploads/av.jpg" -> Name("av", ".jpg")
      [] p = "/images/uploads/f1.jpg" -> Name("f1", ".jpg")
      [] p = "/images/uploads/f2.png" -> Name("f2", ".png")
      [] p = "/images/uploads/k.jpg" -> Name("k", ".jpg")
      [] p = "/images/uploads/default-image.jpg" -> Name("default-image", ".jpg")
      [] p = "/images/n.jpg" -> Name("n", ".jpg")
      [] p = "/images/placeholder.jpg" -> Name("placeholder", ".jpg")
      [] p = "/placeholder-image.svg" -> Name("placeholder-image", ".svg")
      [] OTHER -> Name("", "")

\* p && p.includes('/uploads/')
includesUploads(p) ==
    p \in {"/images/uploads/a.jpg", "/images/uploads/av.jpg", "/images/uploads/f1.jpg",
           "/images/uploads/f2.png", "/images/uploads/k.jpg",
           "/images/uploads/default-image.jpg", "/images/uploads/x"}

\* the name multer's storage gives an uploaded file: a fresh prefix and the
\* extension of the original name
storedName(filename) ==
    CASE filename = "f1.jpg" -> Name("f1", ".jpg")
      [] filename = "f2.png" -> Name("f2", ".png")
      [] filename = "doc.pdf" -> Name("doc", ".pdf")
      [] OTHER -> Name("x", "")

\* fileFilter: file.originalname.match(/\.(jpg|JPG|jpeg|JPEG|png|PNG|gif|GIF|webp|WEBP)$/)
fileFilter(filename) ==
    storedName(filename).ext \in {".jpg", ".JPG", ".jpeg", ".JPEG", ".png", ".PNG",
                                  ".gif", ".GIF", ".webp", ".WEBP"}

\* every file of the upload passes the filter
uploadAccepted(upl) == \A i \in 1..Len(upl) : fileFilter(upl[i])

\* multer stores every uploaded file in UPLOADS_DIR before the handler runs
multerStore(d, upl) ==
    d \cup {File(UPLOADS_DIR, storedName(upl[i])) : i \in 1..Len(upl)}

\* outcomes of fs.unlinkSync: the file is removed, or the call throws and
\* the file stays
UnlinkOutcomes == {"ok", "eperm"}

\* the file of UPLOADS_DIR a record's image path names
uploadFiles(p) ==
    IF includesUploads(p) THEN {File(UPLOADS_DIR, basename(p))} ELSE {}

\* the files a product's images name in the three upload directories below
\* the server
productImageFiles(images) ==
    IF ~images.arr THEN {}
    ELSE {File(dir, basename(images.v[i])) :
             dir \in {<<"images", "uploads">>, <<"uploads">>,
                      <<"public", "images", "uploads">>},
             i \in {j \in 1..Len(images.v) : includesUploads(images.v[j])}}

\* fs.unlinkSync is reached for a file that exists, and throws
unlinkRaised(d, targets, ul) == ul # "ok" /\ targets \cap d # {}

\* a file-delete error that leaves the try and reaches the handler's catch
fileErrorThrown(raised, answer, failure) == IF raised THEN failure ELSE answer

\* catch (fileError) { console.error(...) }: the handler goes on to its answer
fileErrorCaught(raised, answer, failure) == answer

\* fs.existsSync(filePath) && fs.unlinkSync(filePath) in UPLOADS_DIR
unlinkUpload(d, p, ul) ==
    IF ul = "ok" THEN d \ uploadFiles(p) ELSE d

\* the files a deleted product's images name, removed from the three
\* upload directories below the server
unlinkProductImages(d, images, ul) ==
    IF ul = "ok" THEN d \ productImageFiles(images) ELSE d

(***************************************************************************)
(* Helpers on collections.                                                 *)
(***************************************************************************)
Ids(list) == {list[i].id : i \in 1..Len(list)}

\* Math.max(...xs), for a non-empty list of numbers
MathMax(S) == IF S = {} THEN 0
              ELSE LET x == CHOOSE y \in S : \A z \in S : y >= z IN x

\* findIndex whose -1 is taken by splice as the last element
findIndexOrLast(list, id) ==
    IF \E i \in 1..Len(list) : list[i].id = id
    THEN CHOOSE i \in 1..Len(list) :
            list[i].id = id /\ \A j \in 1..(i - 1) : list[j].id # id
    ELSE Len(list)

\* list.findIndex(r => r.id === id); 0 stands for -1
findIndex(list, id) ==
    IF \E i \in 1..Len(list) : list[i].id = id
    THEN CHOOSE i \in 1..Len(list) :
            list[i].id = id /\ \A j \in 1..(i - 1) : list[j].id # id
    ELSE 0

\* list.splice(i, 1)
splice(list, i) == SubSeq(list, 1, i - 1) \o SubSeq(list, i + 1, Len(list))

\* files.map(file => `/images/uploads/${file.filename}`)
UploadUrl(filename) ==
    CASE filename = "f1.jpg" -> "/images/uploads/f1.jpg"
      [] filename = "f2.png" -> "/images/uploads/f2.png"
      [] OTHER -> "/images/uploads/x"

UploadUrls(upl) == [i \in 1..Len(upl) |-> UploadUrl(upl[i])]

\* src/unnamed/part_003:976-978
newIdProductsLen(list) == Len(list) + 1
newIdProducts(list) == IF Len(list) > 0 THEN MathMax(Ids(list)) + 1 ELSE 1

\* an id taken from the number of records
newIdOfLength(list) == Len(list) + 1

\* src/unnamed/part_003:1978-1982 (and the same lines of the other creates)
newIdOf(list) == (IF Len(list) > 0 THEN MathMax(Ids(list)) ELSE 0) + 1


(***************************************************************************)
(* Slugs.                                                                  *)
(***************************************************************************)
\* String.prototype.toLowerCase, one character
toLowerCase(c) ==
    CASE c = "T" -> "t"
      [] c = "A" -> "a"
      [] c = "A_ACUTE" -> "a_acute"
      [] c = "D_STROKE" -> "d_stroke"
      [] OTHER -> c

\* \w
IsWord(c) == c \in {"T", "A", "t", "a", "b", "e", "s", "c", "1", "2", "9", "_"}
\* \s
IsSpace(c) == c \in {" ", "\t"}
\* the accented letters listed in the character class
IsAccented(c) == c \in {"a_acute", "d_stroke", "u_hook"}

\* one character of the six accent-folding replaces
foldAccent(c) ==
    CASE c = "a_acute" -> "a"
      [] c = "d_stroke" -> "d"
      [] c = "u_hook" -> "u"
      [] OTHER -> c

MapChars(F(_), s) == [i \in 1..Len(s) |-> F(s[i])]

RECURSIVE RemoveUnless(_, _)
\* s.replace(/[^...]/gi, '') with Keep the characters of the class
RemoveUnless(Keep(_), s) ==
    IF Len(s) = 0 THEN <<>>
    ELSE IF Keep(Head(s)) THEN <<Head(s)>> \o RemoveUnless(Keep, Tail(s))
    ELSE RemoveUnless(Keep, Tail(s))

RECURSIVE SpaceRunsToHyphen(_)
\* s.replace(/\s+/g, '-')
SpaceRunsToHyphen(s) ==
    IF Len(s) = 0 THEN <<>>
    ELSE IF IsSpace(Head(s))
         THEN IF Len(s) > 1 /\ IsSpace(s[2])
              THEN SpaceRunsToHyphen(Tail(s))
              ELSE <<"-">> \o SpaceRunsToHyphen(Tail(s))
         ELSE <<Head(s)>> \o SpaceRunsToHyphen(Tail(s))

KeepInProductSlug(c) == IsWord(c) \/ IsSpace(c) \/ IsAccented(c)

\* src/unnamed/part_003:981-991
productSlugNoLower(name) ==
    MapChars(foldAccent, SpaceRunsToHyphen(RemoveUnless(KeepInProductSlug, name)))
productSlug(name) ==
    MapChars(foldAccent,
        SpaceRunsToHyphen(
            RemoveUnless(KeepInProductSlug, MapChars(toLowerCase, name))))

(***************************************************************************)
(* Disk outcomes of one request: of the write getDatabase ends with, of    *)
(* the primary write and of the write to the parent directory.             *)
(***************************************************************************)
AllOk == [repair |-> "ok", primary |-> "ok", parent |-> "ok"]

IOFaults ==
    {[AllOk EXCEPT !.repair = "eacces"],
     [AllOk EXCEPT !.primary = "eacces"],
     [AllOk EXCEPT !.parent = "eacces"]}

IOCases == IF faults < MaxFaults THEN {AllOk} \cup IOFaults ELSE {AllOk}

CountFault(io) == faults' = faults + (IF io = AllOk THEN 0 ELSE 1)

\* fileFilter hands multer an Error: multer removes what it stored of the
\* request and passes the error on, the route's handler does not run, and
\* Express's default error handler answers 500 with the error's text
UploadRejected(op, coll, id, body, upl) ==
    /\ req' = Req(op, coll, id, body, upl)
    /\ res' = [status |-> 500, statusCode |-> 0,
               message |-> "Only image files are allowed!",
               dataKind |-> "none", data |-> BlankRec]
    /\ UNCHANGED <<files, faults, disk>>
    /\ UNCHANGED expressFrame

(***************************************************************************)
(* Products (Express content server).                                      *)
(***************************************************************************)
\* POST /api/products
PostApiProducts(body, upl, io) ==
    IF ~uploadAccepted(upl)
    THEN UploadRejected("create", "products", 0, body, upl)
    ELSE
        LET g == getDatabase(files, NODE_ENV, io.repair)
            db == g.db
            newId == newIdProducts(db.products)
            newProduct ==
                [BlankRec EXCEPT !.id = newId,
                                 !.name = body.name,
                                 !.images = ImgArray(UploadUrls(upl)),
                                 !.content = body.content,
                                 !.slug = productSlug(body.name),
                                 !.summary = body.summary]
            w == writeDatabase(g.files, NODE_ENV,
                               [db EXCEPT !.products = Append(@, newProduct)],
                               io.primary, io.parent)
        IN  /\ req' = Req("create", "products", 0, body, upl)
            /\ CountFault(io)
            /\ UNCHANGED expressFrame
            /\ disk' = multerStore(disk, upl)
            /\ IF body.name \in {Undef, Null}
               THEN \* name.toLowerCase() throws; the catch answers 500
                    /\ files' = g.files
                    /\ res' = Json(500, 500, "Error creating product", "none", BlankRec)
               ELSE /\ newId <= MaxId
                    /\ files' = w.files
                    /\ res' = Json(201, 201, "Product created successfully", "record", newProduct)

\* GET /api/products/:id
GetApiProductsId(id, io) ==
    LET g == getDatabase(files, NODE_ENV, io.repair)
        i == findIndex(g.db.products, id)
    IN  /\ req' = Req("get", "products", id, BlankBody, <<>>)
        /\ CountFault(io)
        /\ UNCHANGED expressFrame
        /\ UNCHANGED disk
        /\ files' = g.files
        /\ res' = IF i # 0
                  THEN Json(200, 200, "Success", "record", g.db.products[i])
                  ELSE Json(404, 404, "Product not found", "none", BlankRec)

\* the handler of POST /api/products/:id from its getDatabase to its
\* response: the files it leaves and the response it sends
updateProduct(fs, env, id, body, upl, io) ==
    LET g == getDatabase(fs, env, io.repair)
        db == g.db
        productIndex == findIndex(db.products, id)
        currentProduct == db.products[productIndex]
        allImages == body.keep \o UploadUrls(upl)
        updatedProduct ==
            [currentProduct EXCEPT
                !.name = Or(body.name, currentProduct.name),
                !.content = Or(body.content, currentProduct.content),
                !.summary = Or(body.summary, currentProduct.summary),
                !.images = IF Len(allImages) > 0 THEN ImgArray(allImages) ELSE @]
        w == writeDatabase(g.files, env,
                           [db EXCEPT !.products[productIndex] = updatedProduct],
                           io.primary, io.parent)
    IN  IF productIndex = 0
        THEN [files |-> g.files,
              res |-> Json(404, 404, "Product not found", "none", BlankRec)]
        ELSE [files |-> w.files,
              res |-> IF w.ok
                      THEN Json(200, 200, "Product updated successfully", "record",
                                updatedProduct)
                      ELSE Json(500, 500, "Error writing to database", "none", BlankRec)]

\* POST /api/products/:id
PostApiProductsId(id, body, upl, io) ==
    IF ~uploadAccepted(upl)
    THEN UploadRejected("update", "products", id, body, upl)
    ELSE
        LET out == updateProduct(files, NODE_ENV, id, body, upl, io)
        IN  /\ req' = Req("update", "products", id, body, upl)
            /\ CountFault(io)
            /\ UNCHANGED expressFrame
            /\ disk' = multerStore(disk, upl)
            /\ files' = out.files
            /\ res' = out.res

\* DELETE /api/products/:id
DeleteApiProductsId(id, io, ul) ==
    LET g == getDatabase(files, NODE_ENV, io.repair)
        db == g.db
        productIndex == findIndex(db.products, id)
        deletedProduct == db.products[productIndex]
        w == writeDatabase(g.files, NODE_ENV,
                           [db EXCEPT !.products = splice(@, productIndex)],
                           io.primary, io.parent)
    IN  /\ req' = [Req("delete", "products", id, BlankBody, <<>>) EXCEPT !.unlink = ul]
        /\ CountFault(io)
        /\ UNCHANGED expressFrame
        /\ disk' = IF productIndex # 0 /\ w.ok
                   THEN unlinkProductImages(disk, deletedProduct.images, ul)
                   ELSE disk
        /\ IF productIndex = 0
           THEN /\ files' = g.files
                /\ res' = Json(404, 404, "Product not found", "none", BlankRec)
           ELSE /\ files' = w.files
                /\ res' = IF w.ok
                          THEN fileErrorCaught(
                                   unlinkRaised(disk, productImageFiles(deletedProduct.images), ul),
                                   Json(200, 200, "Product deleted successfully", "record", deletedProduct),
                                   Json(500, 500, "Server error", "none", BlankRec))
                          ELSE Json(500, 500, "Error writing to database", "none", BlankRec)

(***************************************************************************)
(* Handlers that write the file themselves:                                *)
(*   fs.writeFileSync(path.resolve(__dirname, 'database.json'), ...)       *)
(* always to the copy next to the server, whatever NODE_ENV is; a failure  *)
(* throws into the handler's catch.                                        *)
(***************************************************************************)
directWrite(fs, db, primary) == writeFileSync(fs, "app", JsonFile(db), primary)

\* execSync(`node ${rootSyncScriptPath}`): the root-level sync script
\* copies the server's database file to the parent directory; the handler
\* swallows its failure.
syncScript(fs, outcome) ==
    IF outcome = "ok" THEN [fs EXCEPT !["parent"] = fs["app"]] ELSE fs

IsDigit(c) == c \in {"0", "1", "2", "3", "4", "5", "6", "7", "8", "9"}

RECURSIVE DigitPrefix(_)
DigitPrefix(s) ==
    IF Len(s) = 0 \/ ~IsDigit(Head(s)) THEN <<>>
    ELSE <<Head(s)>> \o DigitPrefix(Tail(s))

\* parseFloat(s) for a string of digits followed by anything; NaN is
\* written to the file as null
parseFloat(s) == IF Len(DigitPrefix(s)) = 0 THEN Null ELSE DigitPrefix(s)

sZero == <<"0">>
sDefaultImage == "/images/uploads/default-image.jpg"
sPlaceholderSvg == "/placeholder-image.svg"

\* src/unnamed/part_003:1403
serviceSlug(name) ==
    SpaceRunsToHyphen(RemoveUnless(LAMBDA c : IsWord(c) \/ IsSpace(c),
                                   MapChars(toLowerCase, name)))

\* name.toLowerCase().replace(/\s+/g, '-')
lowerHyphen(name) == SpaceRunsToHyphen(MapChars(toLowerCase, name))

\* typeof imageUrls === 'string' ? [imageUrls] : imageUrls
AsArray(img) == IF img.arr THEN img ELSE ImgArray(img.v)

FalsyImages(img) == ~img.arr /\ (Len(img.v) = 0 \/ img.v[1] = "")

\* POST /api/services
PostApiServices(body, upl, io) ==
    IF ~uploadAccepted(upl)
    THEN UploadRejected("create", "services", 0, body, upl)
    ELSE
        LET g == getDatabase(files, NODE_ENV, io.repair)
            db == g.db
            newId == newIdOf(db.services)
            imageUrls ==
                IF Len(upl) > 0 THEN ImgArray(UploadUrls(upl))
                ELSE IF ~FalsyImages(body.images) THEN AsArray(body.images)
                ELSE ImgArray(<<sDefaultImage>>)
            newService ==
                [BlankRec EXCEPT
                    !.id = newId,
                    !.name = Or(body.name, <<>>),
                    !.title = Or(body.name, <<>>),
                    !.slug = IF Falsy(body.name) THEN <<>> ELSE serviceSlug(body.name),
                    !.summary = Or(body.summary, <<>>),
                    !.content = Or(body.content, <<>>),
                    !.description = Or(body.content, <<>>),
                    !.price = IF Falsy(body.price) THEN sZero ELSE parseFloat(body.price),
                    !.images = imageUrls,
                    !.image = IF Len(imageUrls.v) > 0 THEN imageUrls.v[1] ELSE sDefaultImage]
            db2 == [db EXCEPT !.services = Append(@, newService)]
            f1 == directWrite(g.files, db2, io.primary)
            f2 == writeFileSync(f1, "parent", JsonFile(db2), io.parent)
        IN  /\ req' = Req("create", "services", 0, body, upl)
            /\ CountFault(io)
            /\ UNCHANGED expressFrame
            /\ disk' = multerStore(disk, upl)
            /\ newId <= MaxId
            /\ IF io.primary # "ok"
               THEN /\ files' = f1
                    /\ res' = Json(500, 500, "Error creating service", "none", BlankRec)
               ELSE /\ files' = f2
                    /\ res' = IF io.parent # "ok"
                              THEN Json(500, 500, "Error creating service", "none", BlankRec)
                              ELSE Json(201, 201, "Service created successfully", "record", newService)

\* POST /api/services/:id
PostApiServicesId(id, body, upl, io) ==
    IF ~uploadAccepted(upl)
    THEN UploadRejected("update", "services", id, body, upl)
    ELSE
        LET g == getDatabase(files, NODE_ENV, io.repair)
            db == g.db
            serviceIndex == findIndex(db.services, id)
            existingService == db.services[serviceIndex]
            imageUrls ==
                IF Len(upl) > 0 THEN ImgArray(UploadUrls(upl))
                ELSE IF ~FalsyImages(body.images) THEN AsArray(body.images)
                ELSE IF FalsyImages(existingService.images) /\ ~existingService.images.arr
                     THEN ImgArray(<<>>)
                     ELSE AsArray(existingService.images)
            updated ==
                [existingService EXCEPT
                    !.name = Or(body.name, existingService.name),
                    !.title = Or(body.name, Or(existingService.title, existingService.name)),
                    !.slug = Or(body.slug,
                                Or(existingService.slug,
                                   IF Falsy(body.name) THEN existingService.slug
                                   ELSE lowerHyphen(body.name))),
                    !.summary = Or(body.summary, existingService.summary),
                    !.content = Or(body.content, existingService.content),
                    !.description = Or(body.content,
                                       Or(existingService.description, existingService.content)),
                    !.images = imageUrls]
            db2 == [db EXCEPT !.services[serviceIndex] = updated]
        IN  /\ req' = Req("update", "services", id, body, upl)
            /\ CountFault(io)
            /\ UNCHANGED expressFrame
            /\ disk' = multerStore(disk, upl)
            /\ IF serviceIndex = 0
               THEN /\ files' = g.files
                    /\ res' = Json(404, 404, "Service not found", "none", BlankRec)
               ELSE /\ files' = directWrite(g.files, db2, io.primary)
                    /\ res' = IF io.primary = "ok"
                              THEN Json(200, 200, "Service updated successfully", "record", updated)
                              ELSE Json(500, 500, "Error updating service", "none", BlankRec)

(***************************************************************************)
(* Experiences.                                                            *)
(***************************************************************************)
sNewExperience == <<"T", "N">>
sTraiNghiem == <<"t", "r", "a", "i", "-", "n", "g", "h", "i", "e", "m", "-">>

\* `${newId}`
IdText(n) == <<ToString(n)>>

\* POST /api/experiences
PostApiExperiences(body, upl, io) ==
    IF ~uploadAccepted(upl)
    THEN UploadRejected("create", "experiences", 0, body, upl)
    ELSE
        LET g == getDatabase(files, NODE_ENV, io.repair)
            db == g.db
            newId == newIdOf(db.experiences)
            newExperience ==
                [BlankRec EXCEPT
                    !.id = newId,
                    !.title = Or(body.title, Or(body.name, sNewExperience)),
                    !.name = Or(body.name, sNewExperience),
                    !.slug = Or(body.slug,
                                IF Falsy(body.name) THEN sTraiNghiem \o IdText(newId)
                                ELSE lowerHyphen(body.name)),
                    !.summary = Or(body.summary, <<>>),
                    !.description = Or(body.description, Or(body.content, <<>>)),
                    !.content = Or(body.content, <<>>),
                    !.images = ImgArray(UploadUrls(upl))]
            db2 == [db EXCEPT !.experiences = Append(@, newExperience)]
            f1 == directWrite(g.files, db2, io.primary)
        IN  /\ req' = Req("create", "experiences", 0, body, upl)
            /\ CountFault(io)
            /\ UNCHANGED expressFrame
            /\ disk' = multerStore(disk, upl)
            /\ newId <= MaxId
            /\ IF io.primary # "ok"
               THEN /\ files' = f1
                    /\ res' = Json(500, 500, "Error creating experience", "none", BlankRec)
               ELSE /\ files' = syncScript(f1, io.parent)
                    /\ res' = Json(201, 201, "Experience created successfully", "record", newExperience)

\* POST /api/experiences/:id
PostApiExperiencesId(id, body, upl, io) ==
    IF ~uploadAccepted(upl)
    THEN UploadRejected("update", "experiences", id, body, upl)
    ELSE
        LET g == getDatabase(files, NODE_ENV, io.repair)
            db == g.db
            experienceIndex == findIndex(db.experiences, id)
            existingExperience == db.experiences[experienceIndex]
            imageUrls ==
                IF Len(upl) > 0 THEN ImgArray(UploadUrls(upl))
                ELSE IF FalsyImages(existingExperience.images) /\ ~existingExperience.images.arr
                     THEN ImgArray(<<>>)
                     ELSE AsArray(existingExperience.images)
            updated ==
                [existingExperience EXCEPT
                    !.name = Or(body.name, existingExperience.name),
                    !.title = Or(body.name, Or(existingExperience.title, existingExperience.name)),
                    !.slug = Or(body.slug,
                                Or(existingExperience.slug,
                                   IF Falsy(body.name) THEN existingExperience.slug
                                   ELSE lowerHyphen(body.name))),
                    !.summary = Or(body.summary, existingExperience.summary),
                    !.content = Or(body.content, existingExperience.content),
                    !.description = Or(body.content,
                                       Or(existingExperience.description, existingExperience.content)),
                    !.images = imageUrls]
            db2 == [db EXCEPT !.experiences[experienceIndex] = updated]
            f1 == directWrite(g.files, db2, io.primary)
        IN  /\ req' = Req("update", "experiences", id, body, upl)
            /\ CountFault(io)
            /\ UNCHANGED expressFrame
            /\ disk' = multerStore(disk, upl)
            /\ IF experienceIndex = 0
               THEN /\ files' = g.files
                    /\ res' = Json(404, 404, "Experience not found", "none", BlankRec)
               ELSE IF io.primary # "ok"
               THEN /\ files' = f1
                    /\ res' = Json(500, 500, "Error updating experience", "none", BlankRec)
               ELSE /\ files' = syncScript(f1, io.parent)
                    /\ res' = Json(200, 200, "Experience updated successfully", "record", updated)

\* DELETE /api/experiences/:id
DeleteApiExperiencesId(id, io) ==
    LET g == getDatabase(files, NODE_ENV, io.repair)
        db == g.db
        experienceIndex == findIndex(db.experiences, id)
        db2 == [db EXCEPT !.experiences = splice(@, experienceIndex)]
        f1 == directWrite(g.files, db2, io.primary)
    IN  /\ req' = Req("delete", "experiences", id, BlankBody, <<>>)
        /\ CountFault(io)
        /\ UNCHANGED expressFrame
        /\ UNCHANGED disk
        /\ IF experienceIndex = 0
           THEN /\ files' = g.files
                /\ res' = Json(404, 404, "Experience not found", "none", BlankRec)
           ELSE IF io.primary # "ok"
           THEN /\ files' = f1
                /\ res' = Json(500, 500, "Error deleting experience", "none", BlankRec)
           ELSE /\ files' = syncScript(f1, io.parent)
                /\ res' = Json(200, 200, "Experience deleted successfully", "none", BlankRec)

(***************************************************************************)
(* Team.                                                                   *)
(***************************************************************************)
\* req.file ? `/images/uploads/${req.file.filename}` : otherwise
FileUrlOr(upl, otherwise) == IF Len(upl) > 0 THEN UploadUrl(upl[1]) ELSE otherwise

\* POST /api/teams
PostApiTeams(body, upl, io) ==
    IF ~uploadAccepted(upl)
    THEN UploadRejected("create", "team", 0, body, upl)
    ELSE
        LET g == getDatabase(files, NODE_ENV, io.repair)
            db == g.db
            newId == newIdOf(db.team)
            imageUrl == FileUrlOr(upl, "")
            newMember ==
                [BlankRec EXCEPT
                    !.id = newId,
                    !.name = Or(body.name, <<>>),
                    !.position = Or(body.position, <<>>),
                    !.avatar = imageUrl,
                    !.image = imageUrl,
                    !.description = Or(body.description, <<>>)]
            db2 == [db EXCEPT !.team = Append(@, newMember)]
        IN  /\ req' = Req("create", "team", 0, body, upl)
            /\ CountFault(io)
            /\ UNCHANGED expressFrame
            /\ disk' = multerStore(disk, upl)
            /\ newId <= MaxId
            /\ files' = directWrite(g.files, db2, io.primary)
            /\ res' = IF io.primary = "ok"
                      THEN Json(201, 201, "Team member added successfully", "record", newMember)
                      ELSE Json(500, 500, "Error adding team member", "none", BlankRec)

\* POST /api/teams/:id
PostApiTeamsId(id, body, upl, io) ==
    IF ~uploadAccepted(upl)
    THEN UploadRejected("update", "team", id, body, upl)
    ELSE
        LET g == getDatabase(files, NODE_ENV, io.repair)
            db == g.db
            memberIndex == findIndex(db.team, id)
            existingMember == db.team[memberIndex]
            imageUrl == FileUrlOr(upl, existingMember.image)
            updated ==
                [existingMember EXCEPT
                    !.name = Or(body.name, existingMember.name),
                    !.position = Or(body.position, existingMember.position),
                    !.avatar = imageUrl,
                    !.image = imageUrl,
                    !.description = Or(body.description, existingMember.description)]
            db2 == [db EXCEPT !.team[memberIndex] = updated]
        IN  /\ req' = Req("update", "team", id, body, upl)
            /\ CountFault(io)
            /\ UNCHANGED expressFrame
            /\ disk' = multerStore(disk, upl)
            /\ IF memberIndex = 0
               THEN /\ files' = g.files
                    /\ res' = Json(404, 404, "Team member not found", "none", BlankRec)
               ELSE /\ files' = directWrite(g.files, db2, io.primary)
                    /\ res' = IF io.primary = "ok"
                              THEN Json(200, 200, "Team member updated successfully", "record", updated)
                              ELSE Json(500, 500, "Error updating team member", "none", BlankRec)

\* { id: <the id of the request> } as response data
IdOnly(id) == [BlankRec EXCEPT !.id = id]

\* DELETE /api/teams/:id
DeleteApiTeamsId(id, io, ul) ==
    LET g == getDatabase(files, NODE_ENV, io.repair)
        db == g.db
        memberIndex == findIndex(db.team, id)
        db2 == [db EXCEPT !.team = splice(@, memberIndex)]
    IN  /\ req' = [Req("delete", "team", id, BlankBody, <<>>) EXCEPT !.unlink = ul]
        /\ CountFault(io)
        /\ UNCHANGED expressFrame
        /\ disk' = IF memberIndex # 0 /\ io.primary = "ok"
                   THEN unlinkUpload(disk, db.team[memberIndex].image, ul)
                   ELSE disk
        /\ IF memberIndex = 0
           THEN /\ files' = g.files
                /\ res' = Json(404, 404, "Team member not found", "none", BlankRec)
           ELSE /\ files' = directWrite(g.files, db2, io.primary)
                /\ res' = IF io.primary = "ok"
                          THEN fileErrorCaught(
                                   unlinkRaised(disk, uploadFiles(db.team[memberIndex].image), ul),
                                   Json(200, 200, "Team member deleted successfully", "record", IdOnly(id)),
                                   Json(500, 500, "Error deleting team member", "none", BlankRec))
                          ELSE Json(500, 500, "Error deleting team member", "none", BlankRec)

(***************************************************************************)
(* Contact messages and the images collection.                             *)
(***************************************************************************)
\* POST /api/contact
PostApiContact(body, io) ==
    LET g == getDatabase(files, NODE_ENV, io.repair)
        db == g.db
        newId == newIdOf(db.contacts)
        newContact ==
            [BlankRec EXCEPT
                !.id = newId,
                !.name = Or(body.name, <<>>),
                !.title = Or(body.title, <<>>),
                !.content = Or(body.content, <<>>)]
        db2 == [db EXCEPT !.contacts = Append(@, newContact)]
    IN  /\ req' = Req("create", "contacts", 0, body, <<>>)
        /\ CountFault(io)
        /\ UNCHANGED expressFrame
        /\ UNCHANGED disk
        /\ newId <= MaxId
        /\ files' = directWrite(g.files, db2, io.primary)
        /\ res' = IF io.primary = "ok"
                  THEN Json(201, 201, "Contact message created successfully", "record", newContact)
                  ELSE Json(500, 500, "Error creating contact message", "none", BlankRec)

\* DELETE /api/contact/:id
DeleteApiContactId(id, io) ==
    LET g == getDatabase(files, NODE_ENV, io.repair)
        db == g.db
        contactIndex == findIndex(db.contacts, id)
        db2 == [db EXCEPT !.contacts = splice(@, contactIndex)]
    IN  /\ req' = Req("delete", "contacts", id, BlankBody, <<>>)
        /\ CountFault(io)
        /\ UNCHANGED expressFrame
        /\ UNCHANGED disk
        /\ IF contactIndex = 0
           THEN /\ files' = g.files
                /\ res' = Json(404, 404, "Contact not found", "none", BlankRec)
           ELSE /\ files' = directWrite(g.files, db2, io.primary)
                /\ res' = IF io.primary = "ok"
                          THEN Json(200, 200, "Contact message deleted successfully", "record", IdOnly(id))
                          ELSE Json(500, 500, "Error deleting contact message", "none", BlankRec)

sNewImage == <<"H">>
sImageDescription == <<"M">>

\* a || b on paths
OrPath(a, b) == IF FalsyPath(a) THEN b ELSE a

\* POST /api/images; it answers through res.json without res.status, so the
\* HTTP status stays 200 while the body says 201
PostApiImages(body, io) ==
    LET g == getDatabase(files, NODE_ENV, io.repair)
        db == g.db
        newId == newIdOf(db.images)
        newImage ==
            [BlankRec EXCEPT
                !.id = newId,
                !.url = OrPath(body.url, sPlaceholderSvg),
                !.name = Or(body.name, sNewImage),
                !.description = Or(body.description, sImageDescription)]
        db2 == [db EXCEPT !.images = Append(@, newImage)]
    IN  /\ req' = Req("create", "images", 0, body, <<>>)
        /\ CountFault(io)
        /\ UNCHANGED expressFrame
        /\ UNCHANGED disk
        /\ newId <= MaxId
        /\ files' = directWrite(g.files, db2, io.primary)
        /\ res' = IF io.primary = "ok"
                  THEN Json(200, 201, "Image added successfully", "record", newImage)
                  ELSE Json(500, 500, "Error adding image", "none", BlankRec)

\* DELETE /api/images/:id
DeleteApiImagesId(id, io, ul) ==
    LET g == getDatabase(files, NODE_ENV, io.repair)
        db == g.db
        imageIndex == findIndex(db.images, id)
        deletedImage == db.images[imageIndex]
        db2 == [db EXCEPT !.images = splice(@, imageIndex)]
    IN  /\ req' = [Req("delete", "images", id, BlankBody, <<>>) EXCEPT !.unlink = ul]
        /\ CountFault(io)
        /\ UNCHANGED expressFrame
        /\ disk' = IF imageIndex # 0 /\ io.primary = "ok"
                   THEN unlinkUpload(disk, deletedImage.url, ul)
                   ELSE disk
        /\ IF imageIndex = 0
           THEN /\ files' = g.files
                /\ res' = Json(404, 404, "Image not found", "none", BlankRec)
           ELSE /\ files' = directWrite(g.files, db2, io.primary)
                /\ res' = IF io.primary = "ok"
                          THEN fileErrorCaught(
                                   unlinkRaised(disk, uploadFiles(deletedImage.url), ul),
                                   Json(200, 200, "Image deleted successfully", "record", deletedImage),
                                   Json(500, 500, "Error deleting image", "none", BlankRec))
                          ELSE Json(500, 500, "Error deleting image", "none", BlankRec)

(***************************************************************************)
(* News.                                                                   *)
(***************************************************************************)
sNewNews == <<"T", "i", "n">>
sTinTuc == <<"t", "i", "n", "-", "t", "u", "c", "-">>

\* POST /api/news; answered through res.json without res.status
PostApiNews(body, io) ==
    LET g == getDatabase(files, NODE_ENV, io.repair)
        db == g.db
        newId == newIdOf(db.news)
        newNews ==
            [BlankRec EXCEPT
                !.id = newId,
                !.title = Or(body.title, sNewNews),
                !.slug = Or(body.slug, sTinTuc \o IdText(newId)),
                !.summary = Or(body.summary, <<>>),
                !.content = Or(body.content, <<>>),
                !.images = ImgString(OrPath(body.image, sPlaceholderSvg))]
        db2 == [db EXCEPT !.news = Append(@, newNews)]
    IN  /\ req' = Req("create", "news", 0, body, <<>>)
        /\ CountFault(io)
        /\ UNCHANGED expressFrame
        /\ UNCHANGED disk
        /\ newId <= MaxId
        /\ files' = directWrite(g.files, db2, io.primary)
        /\ res' = IF io.primary = "ok"
                  THEN Json(200, 201, "News created successfully", "record", newNews)
                  ELSE Json(500, 500, "Error creating news", "none", BlankRec)

\* GET /api/experiences/:id
GetApiExperiencesId(id, io) ==
    LET g == getDatabase(files, NODE_ENV, io.repair)
        i == findIndex(g.db.experiences, id)
    IN  /\ req' = Req("get", "experiences", id, BlankBody, <<>>)
        /\ CountFault(io)
        /\ UNCHANGED expressFrame
        /\ UNCHANGED disk
        /\ files' = g.files
        /\ res' = IF i # 0
                  THEN Json(200, 200, "Success", "record", g.db.experiences[i])
                  ELSE Json(404, 404, "Experience not found", "none", BlankRec)

\* defaultMember of GET /api/teams/:id
defaultMember(teamId) ==
    [BlankRec EXCEPT !.id = teamId,
                     !.name = <<"T", "M">>,
                     !.position = <<"M">>,
                     !.avatar = "/images/placeholder.jpg",
                     !.image = "/images/placeholder.jpg",
                     !.description = <<"t">>]

\* GET /api/teams/:id: the default member stands in for a missing one
GetApiTeamsId(id, io) ==
    LET g == getDatabase(files, NODE_ENV, io.repair)
        i == findIndex(g.db.team, id)
    IN  /\ req' = Req("get", "team", id, BlankBody, <<>>)
        /\ CountFault(io)
        /\ UNCHANGED expressFrame
        /\ UNCHANGED disk
        /\ files' = g.files
        /\ res' = IF i # 0
                  THEN Json(200, 200, "Success", "record", g.db.team[i])
                  ELSE Json(200, 200, "Success", "record", defaultMember(id))

\* GET /api/news/:id
GetApiNewsId(id, io) ==
    LET g == getDatabase(files, NODE_ENV, io.repair)
        i == findIndex(g.db.news, id)
    IN  /\ req' = Req("get", "news", id, BlankBody, <<>>)
        /\ CountFault(io)
        /\ UNCHANGED expressFrame
        /\ UNCHANGED disk
        /\ files' = g.files
        /\ res' = IF i # 0
                  THEN Json(200, 200, "Success", "record", g.db.news[i])
                  ELSE Json(404, 404, "News item not found", "none", BlankRec)

\* { ...rec, ...body }: every field the body has replaces the record's
Spread(rec, body) ==
    [rec EXCEPT
        !.name = IF body.name # Undef THEN body.name ELSE @,
        !.title = IF body.title # Undef THEN body.title ELSE @,
        !.slug = IF body.slug # Undef THEN body.slug ELSE @,
        !.summary = IF body.summary # Undef THEN body.summary ELSE @,
        !.content = IF body.content # Undef THEN body.content ELSE @,
        !.description = IF body.description # Undef THEN body.description ELSE @,
        !.price = IF body.price # Undef THEN body.price ELSE @,
        !.position = IF body.position # Undef THEN body.position ELSE @,
        !.image = IF body.image # UndefPath THEN body.image ELSE @,
        !.url = IF body.url # UndefPath THEN body.url ELSE @,
        !.images = IF body.images # UndefImages THEN body.images ELSE @,
        !.id = IF body.id # 0 THEN body.id ELSE @]

\* PATCH /api/news/:id
PatchApiNewsId(id, body, io) ==
    LET g == getDatabase(files, NODE_ENV, io.repair)
        db == g.db
        newsIndex == findIndex(db.news, id)
        processedBody ==
            [body EXCEPT !.images = IF FalsyImages(@) THEN @ ELSE AsArray(@)]
        merged == [Spread(db.news[newsIndex], processedBody) EXCEPT !.id = id]
        updated ==
            IF ~FalsyPath(body.image) /\ FalsyImages(processedBody.images)
            THEN [merged EXCEPT !.images = ImgArray(<<body.image>>)]
            ELSE merged
        w == writeDatabase(g.files, NODE_ENV,
                           [db EXCEPT !.news[newsIndex] = updated],
                           io.primary, io.parent)
    IN  /\ req' = Req("update", "news", id, body, <<>>)
        /\ CountFault(io)
        /\ UNCHANGED expressFrame
        /\ UNCHANGED disk
        /\ IF newsIndex = 0
           THEN /\ files' = g.files
                /\ res' = Json(404, 404, "News not found", "none", BlankRec)
           ELSE /\ files' = w.files
                /\ res' = IF w.ok
                          THEN Json(200, 200, "News updated successfully", "record", updated)
                          ELSE Json(500, 500, "Error writing to database", "none", BlankRec)

\* DELETE /api/news/:id
DeleteApiNewsId(id, io) ==
    LET g == getDatabase(files, NODE_ENV, io.repair)
        db == g.db
        newsIndex == findIndex(db.news, id)
        deletedItem == db.news[newsIndex]
        w == writeDatabase(g.files, NODE_ENV,
                           [db EXCEPT !.news = splice(@, newsIndex)],
                           io.primary, io.parent)
    IN  /\ req' = Req("delete", "news", id, BlankBody, <<>>)
        /\ CountFault(io)
        /\ UNCHANGED expressFrame
        /\ UNCHANGED disk
        /\ IF newsIndex = 0
           THEN /\ files' = g.files
                /\ res' = Json(404, 404, "News not found", "none", BlankRec)
           ELSE /\ files' = w.files
                /\ res' = IF w.ok
                          THEN Json(200, 200, "News deleted successfully", "record", deletedItem)
                          ELSE Json(500, 500, "Error writing to database", "none", BlankRec)

(***************************************************************************)
(* Navigation: parents hold their children.                                *)
(***************************************************************************)
\* the first parent whose children hold the id; 0 when none does
parentOfChild(nav, id) ==
    IF \E i \in 1..Len(nav) : findIndex(nav[i].children, id) # 0
    THEN CHOOSE i \in 1..Len(nav) :
            /\ findIndex(nav[i].children, id) # 0
            /\ \A j \in 1..(i - 1) : findIndex(nav[j].children, id) = 0
    ELSE 0

\* the response data of a navigation item: its id and title
NavData(item) == [BlankRec EXCEPT !.id = item.id, !.title = item.title]

\* DELETE /api/parent-navs/:id
DeleteApiParentNavsId(id, io) ==
    LET g == getDatabase(files, NODE_ENV, io.repair)
        db == g.db
        parentIndex == findIndex(db.navigation, id)
        db2 == [db EXCEPT !.navigation = splice(@, parentIndex)]
    IN  /\ req' = Req("delete", "navigation", id, BlankBody, <<>>)
        /\ CountFault(io)
        /\ UNCHANGED expressFrame
        /\ UNCHANGED disk
        /\ IF parentIndex = 0
           THEN /\ files' = g.files
                /\ res' = Json(404, 404, "Parent navigation not found", "none", BlankRec)
           ELSE /\ files' = directWrite(g.files, db2, io.primary)
                /\ res' = IF io.primary = "ok"
                          THEN Json(200, 200, "Parent navigation deleted successfully",
                                    "record", NavData(db.navigation[parentIndex]))
                          ELSE Json(500, 500, "Error deleting parent navigation", "none", BlankRec)

\* DELETE /api/child-navs/:id
DeleteApiChildNavsId(id, io) ==
    LET g == getDatabase(files, NODE_ENV, io.repair)
        db == g.db
        i == parentOfChild(db.navigation, id)
        childIndex == findIndex(db.navigation[i].children, id)
        db2 == [db EXCEPT !.navigation[i].children = splice(@, childIndex)]
    IN  /\ req' = Req("delete", "child-navs", id, BlankBody, <<>>)
        /\ CountFault(io)
        /\ UNCHANGED expressFrame
        /\ UNCHANGED disk
        /\ IF i = 0
           THEN /\ files' = g.files
                /\ res' = Json(404, 404, "Child navigation not found", "none", BlankRec)
           ELSE /\ files' = directWrite(g.files, db2, io.primary)
                /\ res' = IF io.primary = "ok"
                          THEN Json(200, 200, "Child navigation deleted successfully",
                                    "record", NavData(db.navigation[i].children[childIndex]))
                          ELSE Json(500, 500, "Error deleting child navigation", "none", BlankRec)

\* { ...parent, ...req.body } for the fields a parent has
SpreadNav(item, body) ==
    [item EXCEPT
        !.title = IF body.title # Undef THEN body.title ELSE @,
        !.slug = IF body.slug # Undef THEN body.slug ELSE @,
        !.id = IF body.id # 0 THEN body.id ELSE @]

\* { ...child, ...req.body }
SpreadChild(child, body) ==
    [child EXCEPT
        !.title = IF body.title # Undef THEN body.title ELSE @,
        !.id = IF body.id # 0 THEN body.id ELSE @,
        !.parentId = IF body.parentId # 0 THEN body.parentId ELSE @]

\* a child patched with whatever the body carries
patchedChildSpreadOnly(child, body, id, parent) == SpreadChild(child, body)

\* { ...child, ...req.body, id: id, parentId: parent.id }
patchedChild(child, body, id, parent) ==
    [SpreadChild(child, body) EXCEPT !.id = id, !.parentId = parent.id]

\* PATCH /api/parent-navs/:id
PatchApiParentNavsId(id, body, io) ==
    LET g == getDatabase(files, NODE_ENV, io.repair)
        db == g.db
        parentIndex == findIndex(db.navigation, id)
        updated == [SpreadNav(db.navigation[parentIndex], body) EXCEPT !.id = id]
        db2 == [db EXCEPT !.navigation[parentIndex] = updated]
    IN  /\ req' = Req("update", "navigation", id, body, <<>>)
        /\ CountFault(io)
        /\ UNCHANGED expressFrame
        /\ UNCHANGED disk
        /\ IF parentIndex = 0
           THEN /\ files' = g.files
                /\ res' = Json(404, 404, "Parent navigation not found", "none", BlankRec)
           ELSE /\ files' = directWrite(g.files, db2, io.primary)
                /\ res' = IF io.primary = "ok"
                          THEN Json(200, 200, "Parent navigation updated successfully",
                                    "record", updated)
                          ELSE Json(500, 500, "Error updating parent navigation", "none",
                                    BlankRec)

\* PATCH /api/child-navs/:id
PatchApiChildNavsId(id, body, io) ==
    LET g == getDatabase(files, NODE_ENV, io.repair)
        db == g.db
        i == parentOfChild(db.navigation, id)
        childIndex == findIndex(db.navigation[i].children, id)
        updatedChild == patchedChild(db.navigation[i].children[childIndex], body, id,
                                     db.navigation[i])
        db2 == [db EXCEPT !.navigation[i].children[childIndex] = updatedChild]
    IN  /\ req' = Req("update", "child-navs", id, body, <<>>)
        /\ CountFault(io)
        /\ UNCHANGED expressFrame
        /\ UNCHANGED disk
        /\ IF i = 0
           THEN /\ files' = g.files
                /\ res' = Json(404, 404, "Child navigation not found", "none", BlankRec)
           ELSE /\ files' = directWrite(g.files, db2, io.primary)
                /\ res' = IF io.primary = "ok"
                          THEN Json(200, 200, "Child navigation updated successfully",
                                    "record", updatedChild)
                          ELSE Json(500, 500, "Error updating child navigation", "none",
                                    BlankRec)

(***************************************************************************)
(* The json-server variant (server.js): the document is loaded once into   *)
(* DATABASE and the product handlers work on that copy.  Its responses do  *)
(* not pass through the envelope of the Express content server.            *)
(***************************************************************************)
\* res.status(s).jsonp(body)
Jsonp(status, statusCode, message, dataKind, data) ==
    [status |-> status, statusCode |-> statusCode, message |-> message,
     dataKind |-> dataKind, data |-> data]

\* dbUtils.getNewestDatabase(): the load of the Content Store
getNewestDatabase(fs) ==
    IF fs["app"].kind = "nonobject" THEN CatchDefaultDoc ELSE Normalize(fs["app"])

\* dbUtils.syncDatabase(data): the save of the Content Store, to the file
\* next to the server and best-effort to the copy in the parent directory
syncDatabase(fs, data, primary, parent) ==
    LET afterPrimary == writeFileSync(fs, "app", JsonFile(data), primary)
    IN  IF primary # "ok"
        THEN [ok |-> FALSE, files |-> afterPrimary]
        ELSE [ok |-> TRUE,
              files |-> writeFileSync(afterPrimary, "parent", JsonFile(data), parent)]

\* multer.diskStorage of server.js: destination ../public/uploads, filename
\* uniqueSuffix + '-' + file.originalname; multer({ storage }) has no
\* fileFilter, so every file of the request is stored
SERVER_UPLOADS_DIR == <<"..", "public", "uploads">>

serverStore(d, upl) ==
    d \cup {File(SERVER_UPLOADS_DIR, storedName(upl[i])) : i \in 1..Len(upl)}

\* `/uploads/${file.filename}`
ServerUploadUrl(filename) ==
    CASE filename = "f1.jpg" -> "/uploads/f1.jpg"
      [] filename = "f2.png" -> "/uploads/f2.png"
      [] filename = "doc.pdf" -> "/uploads/doc.pdf"
      [] OTHER -> "/uploads/x"

\* slugify(name, { lower: true }) on the characters of the model; it throws
\* when name is not a string
slugify(name) == lowerHyphen(name)

\* dbUtils.addProduct(product): the product joins the newest document under
\* the next id and the document is saved
addProduct(fs, product, primary, parent) ==
    LET db == getNewestDatabase(fs)
        rec == [product EXCEPT !.id = newIdOf(db.products)]
        w == syncDatabase(fs, [db EXCEPT !.products = Append(@, rec)], primary, parent)
    IN  [success |-> w.ok, product |-> rec, files |-> w.files]

\* server.post('/api/products'), behind upload.array('images[]', 5)
ServerPostApiProducts(body, upl, io) ==
    LET uploadedImages == [i \in 1..Len(upl) |-> ServerUploadUrl(upl[i])]
        throws == Falsy(body.slug) /\ body.name \in {Undef, Null}
        slug == IF Falsy(body.slug) THEN slugify(body.name) ELSE body.slug
        newProduct ==
            [BlankRec EXCEPT
                !.name = body.name,
                !.slug = slug,
                !.summary = body.summary,
                !.description = body.description,
                !.price = IF Falsy(body.price) THEN Null ELSE parseFloat(body.price),
                !.images = ImgArray(uploadedImages),
                !.content = body.content]
        result == addProduct(files, newProduct, io.primary, io.parent)
    IN  /\ req' = Req("create", "products", 0, body, upl)
        /\ disk' = serverStore(disk, upl)
        /\ UNCHANGED <<NODE_ENV, resource, server, DATABASE, ret, imgReq, imgRes, inflight>>
        /\ IF throws
           THEN /\ res' = Jsonp(500, 500, "Server error", "none", BlankRec)
                /\ UNCHANGED <<files, faults>>
           ELSE /\ result.product.id <= MaxId
                /\ CountFault(io)
                /\ files' = result.files
                /\ res' = IF result.success
                          THEN Jsonp(201, 201, "Product created successfully",
                                     "record", result.product)
                          ELSE Jsonp(500, 500, "", "none", BlankRec)

\* server.get('/api/products/:id')
ServerGetApiProductsId(id) ==
    LET i == findIndex(DATABASE.products, id)
    IN  /\ req' = Req("get", "products", id, BlankBody, <<>>)
        /\ res' = IF i # 0
                  THEN Jsonp(200, 200, "", "record", DATABASE.products[i])
                  ELSE Jsonp(404, 404, "Product not found", "none", BlankRec)
        /\ UNCHANGED <<NODE_ENV, resource, server, files, faults, DATABASE, ret, imageVars, inflight>>

\* server.delete('/api/products/:id'): the record leaves DATABASE before
\* the save is attempted
ServerDeleteApiProductsId(id, io) ==
    LET productIndex == findIndex(DATABASE.products, id)
        data == [DATABASE EXCEPT !.products = splice(@, productIndex)]
        w == syncDatabase(files, data, io.primary, io.parent)
    IN  /\ req' = Req("delete", "products", id, BlankBody, <<>>)
        /\ UNCHANGED <<NODE_ENV, resource, server, ret, imageVars, inflight>>
        /\ IF productIndex = 0
           THEN /\ res' = Jsonp(404, 404, "Product not found", "none", BlankRec)
                /\ UNCHANGED <<files, faults, DATABASE>>
           ELSE /\ CountFault(io)
                /\ DATABASE' = data
                /\ files' = w.files
                /\ res' = IF w.ok
                          THEN Jsonp(200, 200, "Product deleted successfully", "none", BlankRec)
                          ELSE Jsonp(500, 500, "Error writing to database", "none", BlankRec)

(***************************************************************************)
(* Image resolvers.  A request carries its path, the directory and file    *)
(* name the path splits into, and what the routers' patterns make of the   *)
(* path.                                                                   *)
(***************************************************************************)
MaxFiles == 2        \* most image files on disk when a run starts

ImgReq(path, dir, name, listed, digits13, digitsJpg) ==
    [path |-> path, dir |-> dir, name |-> name,
     listed |-> listed,         \* one of allProblematicImages
     digits13 |-> digits13,     \* /\/(api|images|uploads)\/.*\d{13}.*/
     digitsJpg |-> digitsJpg]   \* /\/images\/\d+.*\.jpg/

ImageRequests ==
    {ImgReq("/images/does-not-exist.jpg", <<"images">>, Name("does-not-exist", ".jpg"),
            FALSE, FALSE, FALSE),
     ImgReq("/images/123.jpg", <<"images">>, Name("123", ".jpg"), FALSE, FALSE, TRUE),
     ImgReq("/images/1747711777614-639500359.jpg", <<"images">>,
            Name("1747711777614-639500359", ".jpg"), TRUE, TRUE, TRUE),
     ImgReq("/uploads/1747193559802-1.png", <<"uploads">>,
            Name("1747193559802-1", ".png"), FALSE, TRUE, FALSE),
     ImgReq("/api/uploads/1747193559802-1.jpg", <<"api", "uploads">>,
            Name("1747193559802-1", ".jpg"), FALSE, TRUE, FALSE),
     ImgReq("/images/photo.gif", <<"images">>, Name("photo", ".gif"),
            FALSE, FALSE, FALSE),
     ImgReq("/uploads/photo.webp", <<"uploads">>, Name("photo", ".webp"),
            FALSE, FALSE, FALSE)}

NoImgReq ==
    [resolver |-> "none", r |-> ImgReq("", <<>>, Name("", ""), FALSE, FALSE, FALSE)]

\* a response: its status, its Content-Type, what its body is, and the
\* file sent or the Location redirected to
ImgRes(status, contentType, body, file, location) ==
    [status |-> status, contentType |-> contentType, body |-> body,
     file |-> file, location |-> location]

NoImgRes == ImgRes(0, "", "none", NoFile, "")

\* the first path of the list that exists; NoFile when none does
FirstExisting(d, paths) ==
    IF \E i \in 1..Len(paths) : existsSync(d, paths[i])
    THEN paths[CHOOSE i \in 1..Len(paths) :
                  /\ existsSync(d, paths[i])
                  /\ \A j \in 1..(i - 1) : ~existsSync(d, paths[j])]
    ELSE NoFile

\* contentTypes[path.extname(filename).toLowerCase()] || 'application/octet-stream'
getContentType(name) ==
    CASE name.ext \in {".jpg", ".jpeg"} -> "image/jpeg"
      [] name.ext = ".png" -> "image/png"
      [] name.ext = ".gif" -> "image/gif"
      [] name.ext = ".webp" -> "image/webp"
      [] name.ext = ".ico" -> "image/x-icon"
      [] OTHER -> "application/octet-stream"

getImageSearchPaths(imageName) ==
    << File(<<"images">>, imageName),
       File(<<"public", "images">>, imageName),
       File(<<"uploads">>, imageName),
       File(<<"public", "uploads">>, imageName),
       File(<<"images", "uploads">>, imageName),
       File(<<"public", "images", "uploads">>, imageName),
       File(<<"/tmp", "uploads">>, imageName) >>

defaultImages ==
    <<Name("default", ".jpg"), Name("placeholder", ".jpg"), Name("default-image", ".jpg")>>

\* a search for the default images that finds none
findDefaultImageNever(d) == NoFile

\* the first default image found, names outermost and directories innermost
findDefaultImage(d) ==
    FirstExisting(d, getImageSearchPaths(defaultImages[1])
                     \o getImageSearchPaths(defaultImages[2])
                     \o getImageSearchPaths(defaultImages[3]))

\* what an image resolver leaves alone
imageFrame ==
    <<NODE_ENV, resource, files, req, res, faults, server, DATABASE, ret, disk, inflight>>

\* imageRouter.get('*') of the image proxy
ImageRouterGet(r) ==
    LET imagePath == FirstExisting(disk, getImageSearchPaths(r.name))
        defaultPath == findDefaultImage(disk)
    IN  /\ imgReq' = [resolver |-> "image-proxy", r |-> r]
        /\ imgRes' =
              IF imagePath # NoFile
              THEN ImgRes(200, getContentType(imagePath.name), "file", imagePath, "")
              ELSE IF defaultPath # NoFile
              THEN ImgRes(200, getContentType(defaultPath.name), "file", defaultPath, "")
              ELSE ImgRes(200, "image/png", "placeholder", NoFile, "")
        /\ UNCHANGED imageFrame

\* res.type('image/png'); res.send(createPlaceholderImage())
sendPlaceholder(type) == ImgRes(200, type, "placeholder", NoFile, "")

\* res.sendFile of a file that exists: the type follows the file's extension
sendFile(f) == ImgRes(200, getContentType(f.name), "file", f, "")

\* the handler registered for each of allProblematicImages
problematicHandler(d, r) ==
    LET found == FirstExisting(d,
                    << File(<<"images">> \o r.dir, r.name),
                       File(<<"public", "images">> \o r.dir, r.name),
                       File(<<"uploads">> \o r.dir, r.name),
                       File(<<"public", "uploads">> \o r.dir, r.name),
                       File(<<"images", "uploads">> \o r.dir, r.name),
                       File(<<"public", "images", "uploads">> \o r.dir, r.name),
                       File(<<"images">>, r.name),
                       File(<<"uploads">>, r.name),
                       File(<<"public", "images">>, r.name),
                       File(<<"public", "uploads">>, r.name) >>)
    IN  IF found # NoFile THEN sendFile(found) ELSE sendPlaceholder("image/png")

\* req.path.startsWith('/api/')
startsWithApi(r) == Len(r.dir) > 0 /\ r.dir[1] = "api"

\* the catch-all handler of /\.(jpg|jpeg|png|gif|webp|ico)$/
catchAllHandler(d, r) ==
    LET found == FirstExisting(d,
                    << File(<<"images">>, r.name),
                       File(<<"public", "images">>, r.name),
                       File(<<"uploads">>, r.name),
                       File(<<"public", "uploads">>, r.name) >>)
    IN  IF found # NoFile THEN sendFile(found) ELSE sendPlaceholder("image/png")

\* the routes of imageWorkaroundRouter in the order they are registered
ImageWorkaroundGet(r) ==
    /\ imgReq' = [resolver |-> "workaround", r |-> r]
    /\ imgRes' =
          IF r.listed THEN problematicHandler(disk, r)
          ELSE IF r.digits13 /\ ~startsWithApi(r) THEN sendPlaceholder("image/png")
          ELSE IF r.digitsJpg THEN sendPlaceholder("image/jpeg")
          ELSE IF r.name.ext \in {".jpg", ".jpeg", ".png", ".gif", ".webp", ".ico"}
          THEN catchAllHandler(disk, r)
          ELSE ImgRes(0, "", "next", NoFile, "")
    /\ UNCHANGED imageFrame

\* what res.redirect's res.format leaves in Content-Type for an Accept header
AcceptKinds == {"text", "html", "default"}

\* the middleware for images not found of the Express content server;
\* placeholderImagePath is declared nowhere, so evaluating the argument of
\* its last sendFile throws and Express answers through its default
\* error handler
ImageNotFound(r, accept) ==
    LET contentType ==
            IF r.name.ext = ".webp" THEN "image/webp"
            ELSE IF r.name.ext = ".gif" THEN "image/gif"
            ELSE IF r.name.ext = ".png" THEN "image/png"
            ELSE "image/jpeg"
        found == FirstExisting(disk,
                    << File(r.dir, r.name),
                       File(<<"images", "uploads">>, r.name),
                       File(<<"uploads">>, r.name),
                       File(<<"public", "images", "uploads">>, r.name),
                       File(<<"/tmp", "uploads">>, r.name),
                       File(<<"..", "uploads">>, r.name),
                       File(<<"..", "images", "uploads">>, r.name),
                       File(<<"..", "public", "images", "uploads">>, r.name),
                       File(<<"..", "build", "images", "uploads">>, r.name) >>)
    IN  /\ imgReq' = [resolver |-> "server-express", r |-> r]
        /\ imgRes' =
              IF r.name.ext \notin {".jpg", ".jpeg", ".png", ".gif", ".webp"}
              THEN ImgRes(0, "", "next", NoFile, "")
              ELSE IF found # NoFile
              THEN ImgRes(200, contentType, "file", found, "")
              ELSE IF startsWithApi(r) /\ \E i \in 1..Len(r.dir) : r.dir[i] = "uploads"
              THEN ImgRes(302,
                          CASE accept = "text" -> "text/plain"
                            [] accept = "html" -> "text/html"
                            [] OTHER -> contentType,
                          "redirect", NoFile, "without /api")
              ELSE ImgRes(500, "text/html", "error", NoFile, "")
        /\ UNCHANGED imageFrame

(***************************************************************************)
(* Seed documents.                                                         *)
(***************************************************************************)
sC0 == <<"c", "0">>
sFive == <<"5">>

\* request bodies with the files uploaded along
SeedRec(id, name) ==
    [BlankRec EXCEPT !.id = id, !.name = name, !.title = name,
                     !.slug = <<"s">>, !.summary = sS1, !.content = sC0,
                     !.description = sC0, !.price = sFive,
                     !.position = <<"P">>,
                     !.avatar = "/images/uploads/av.jpg",
                     !.image = "/images/uploads/a.jpg",
                     !.url = "/images/uploads/a.jpg",
                     !.images = ImgArray(<<"/images/uploads/a.jpg">>)]

SeedChild(id, parentId) == [id |-> id, title |-> sTest, parentId |-> parentId]

SeedNavigation ==
    << [id |-> 1, title |-> sTrangChu, slug |-> sTrangChuSlug,
        children |-> <<SeedChild(1, 1), SeedChild(2, 1)>>],
       [id |-> 2, title |-> sTest, slug |-> <<"t">>,
        children |-> <<SeedChild(3, 2)>>] >>

SeedDoc(list) ==
    [products |-> list, services |-> list, experiences |-> list,
     team |-> list, news |-> list, images |-> list,
     videos |-> <<>>, contacts |-> list, categories |-> <<>>,
     users |-> <<>>, navigation |-> SeedNavigation]

\* the seed with n records in each collection: one record with id 2, or
\* records 1 and 2
SeedDocOf(n) ==
    IF n = 1 THEN SeedDoc(<<SeedRec(2, sTest)>>)
    ELSE SeedDoc(<<SeedRec(1, sTest), SeedRec(2, sTest)>>)

(***************************************************************************)
(* The Content Store called directly: getDatabase and writeDatabase on     *)
(* files of every kind.                                                    *)
(***************************************************************************)
NoRet ==
    [fn |-> "none", fileKind |-> "none", db |-> EmptyDoc, ok |-> FALSE,
     primary |-> "ok", parent |-> "ok", before |-> MissingFile]

\* {} and objects that have some of the keys
EmptyObjectFile == [kind |-> "json", keys |-> {}, doc |-> EmptyDoc]
ProductsOnlyFile == [kind |-> "json", keys |-> {"products"}, doc |-> SeedDocOf(1)]
NoTeamFile == [kind |-> "json", keys |-> AllKeys \ {"team"}, doc |-> SeedDocOf(2)]

StoreFiles ==
    {MissingFile, MalformedFile, NullFile, EmptyObjectFile, ProductsOnlyFile,
     NoTeamFile, JsonFile(EmptyDoc), JsonFile(SeedDocOf(1)), JsonFile(SeedDocOf(2))}

StoreDocs == {EmptyDoc, SeedDocOf(1), SeedDocOf(2)}

InitStore ==
    /\ server = "server-express"
    /\ NODE_ENV \in {"development", "production"}
    /\ resource = "store"
    /\ \E f \in StoreFiles, p \in {MissingFile, JsonFile(SeedDocOf(1))} :
          files = [app |-> IF NODE_ENV = "production" THEN MissingFile ELSE f,
                   tmp |-> IF NODE_ENV = "production" THEN f ELSE MissingFile,
                   parent |-> p]
    /\ req = NoReq
    /\ res = NoRes
    /\ faults = 0
    /\ DATABASE = EmptyDoc
    /\ ret = NoRet
    /\ disk = {}
    /\ imgReq = NoImgReq
    /\ imgRes = NoImgRes
    /\ inflight = NoInflight

\* const db = getDatabase()
CallGetDatabase(repair) ==
    LET g == getDatabase(files, NODE_ENV, repair)
    IN  /\ ret' = [NoRet EXCEPT !.fn = "getDatabase",
                                !.fileKind = files[dbPath(NODE_ENV)].kind,
                                !.db = g.db,
                                !.ok = TRUE,
                                !.primary = repair,
                                !.before = files[dbPath(NODE_ENV)]]
        /\ files' = g.files
        /\ UNCHANGED <<NODE_ENV, resource, server, DATABASE, req, res, faults, imageVars, inflight>>

\* writeDatabase(db)
CallWriteDatabase(db, primary, parent) ==
    LET w == writeDatabase(files, NODE_ENV, db, primary, parent)
    IN  /\ ret' = [NoRet EXCEPT !.fn = "writeDatabase",
                                !.fileKind = files[dbPath(NODE_ENV)].kind,
                                !.db = db,
                                !.ok = w.ok,
                                !.primary = primary,
                                !.parent = parent,
                                !.before = files[dbPath(NODE_ENV)]]
        /\ files' = w.files
        /\ UNCHANGED <<NODE_ENV, resource, server, DATABASE, req, res, faults, imageVars, inflight>>

\* writeDatabase(db) in a process that ends while fs.writeFileSync is
\* writing the primary file: the file was truncated when it was opened and
\* holds a proper prefix of the text, which JSON.parse rejects; nothing is
\* returned and the sibling copy is not reached
InterruptedWriteDatabase(db) ==
    /\ ret' = [NoRet EXCEPT !.fn = "writeDatabase interrupted",
                            !.fileKind = files[dbPath(NODE_ENV)].kind,
                            !.db = db,
                            !.before = files[dbPath(NODE_ENV)]]
    /\ files' = [files EXCEPT ![dbPath(NODE_ENV)] = MalformedFile]
    /\ UNCHANGED <<NODE_ENV, resource, server, DATABASE, req, res, faults, imageVars, inflight>>

NextStore ==
    \/ \E repair \in WriteOutcomes : CallGetDatabase(repair)
    \/ \E db \in StoreDocs : InterruptedWriteDatabase(db)
    \/ \E db \in StoreDocs, primary \in WriteOutcomes, parent \in WriteOutcomes :
          CallWriteDatabase(db, primary, parent)

SpecStore == InitStore /\ [][NextStore]_vars

(***************************************************************************)
(* The client session: the requests drawn and the files the server starts  *)
(* with.  A session addresses one resource (the variable resource), and    *)
(* each specification below lets the client send one kind of request.      *)
(***************************************************************************)
Resources ==
    {"products", "services", "experiences", "team", "news", "contacts",
     "images", "navigation"}

\* ids a request may name: those of the seed records and one that no
\* record ever has
NoSuchId == MaxId + 1
ReqIds == {1, 2, NoSuchId}

Submissions ==
    {[body |-> BlankBody, upl |-> <<>>],
     [body |-> [BlankBody EXCEPT !.name = sAb, !.summary = sS2, !.price = sNine,
                                 !.position = <<"M">>, !.description = sC1,
                                 !.image = "/images/n.jpg", !.id = 1,
                                 !.keep = <<"/images/uploads/k.jpg">>],
      upl |-> <<"f1.jpg">>],
     [body |-> [BlankBody EXCEPT !.summary = <<>>, !.content = sC1],
      upl |-> <<>>],
     [body |-> [BlankBody EXCEPT !.name = sTest], upl |-> <<"doc.pdf">>]}

\* the image files the seed records name, as uploaded and as copied below
\* the server
SeedDisk ==
    {File(UPLOADS_DIR, Name("a", ".jpg")), File(<<"images", "uploads">>, Name("a", ".jpg"))}

GapDoc == SeedDocOf(1)
FullDoc == SeedDocOf(2)

InitFiles == {MissingFile, MalformedFile, NullFile, JsonFile(GapDoc), JsonFile(FullDoc)}

Init ==
    /\ server \in {"server-express", "json-server"}
    /\ NODE_ENV \in IF server = "json-server"
                    THEN {"development"}
                    ELSE {"development", "production"}
    /\ resource \in IF server = "json-server" THEN {"products"} ELSE Resources
    /\ \E f \in InitFiles :
          files = [app |-> IF NODE_ENV = "production" THEN JsonFile(FullDoc) ELSE f,
                   tmp |-> IF NODE_ENV = "production" THEN f ELSE MissingFile,
                   parent |-> MissingFile]
    /\ req = NoReq
    /\ res = NoRes
    /\ faults = 0
    /\ DATABASE = IF server = "json-server" THEN getNewestDatabase(files) ELSE EmptyDoc
    /\ ret = NoRet
    /\ disk = SeedDisk
    /\ imgReq = NoImgReq
    /\ imgRes = NoImgRes
    /\ inflight = NoInflight

Express == server = "server-express"
JsonServer == server = "json-server"

NextCreate ==
    \/ \E s \in Submissions, io \in IOCases :
          Express /\ resource = "products" /\ PostApiProducts(s.body, s.upl, io)
    \/ \E s \in Submissions, io \in IOCases :
          Express /\ resource = "services" /\ PostApiServices(s.body, s.upl, io)
    \/ \E s \in Submissions, io \in IOCases :
          Express /\ resource = "experiences" /\ PostApiExperiences(s.body, s.upl, io)
    \/ \E s \in Submissions, io \in IOCases :
          Express /\ resource = "team" /\ PostApiTeams(s.body, s.upl, io)
    \/ \E s \in Submissions, io \in IOCases :
          Express /\ resource = "contacts" /\ PostApiContact(s.body, io)
    \/ \E s \in Submissions, io \in IOCases :
          Express /\ resource = "images" /\ PostApiImages(s.body, io)
    \/ \E s \in Submissions, io \in IOCases :
          Express /\ resource = "news" /\ PostApiNews(s.body, io)
    \/ \E s \in Submissions, io \in IOCases :
          JsonServer /\ ServerPostApiProducts(s.body, s.upl, io)

\* the submissions sent to the update routes: those whose upload passes
\* the filter, the others never reaching a handler
UpdateSubmissions == {s \in Submissions : uploadAccepted(s.upl)}

NextUpdate ==
    \/ \E id \in ReqIds, s \in UpdateSubmissions, io \in IOCases :
          Express /\ resource = "products" /\ PostApiProductsId(id, s.body, s.upl, io)
    \/ \E id \in ReqIds, s \in UpdateSubmissions, io \in IOCases :
          Express /\ resource = "services" /\ PostApiServicesId(id, s.body, s.upl, io)
    \/ \E id \in ReqIds, s \in UpdateSubmissions, io \in IOCases :
          Express /\ resource = "experiences" /\ PostApiExperiencesId(id, s.body, s.upl, io)
    \/ \E id \in ReqIds, s \in UpdateSubmissions, io \in IOCases :
          Express /\ resource = "team" /\ PostApiTeamsId(id, s.body, s.upl, io)
    \/ \E id \in ReqIds, s \in UpdateSubmissions, io \in IOCases :
          Express /\ resource = "news" /\ PatchApiNewsId(id, s.body, io)

\* JSON bodies of a PATCH: with and without a title, an id and a parentId
\* of their own
PatchBodies ==
    {[BlankBody EXCEPT !.title = t, !.id = i, !.parentId = pid] :
        t \in {Undef, sTest}, i \in {0, 2}, pid \in {0, 2}}

\* the bodies sent to records that have no parentId
PlainPatchBodies == {b \in PatchBodies : b.parentId = 0}

NextPatch ==
    \/ \E id \in ReqIds, body \in PlainPatchBodies, io \in IOCases :
          Express /\ resource = "navigation" /\ PatchApiParentNavsId(id, body, io)
    \/ \E id \in ReqIds, body \in PatchBodies, io \in IOCases :
          Express /\ resource = "navigation" /\ PatchApiChildNavsId(id, body, io)
    \/ \E id \in ReqIds, body \in PlainPatchBodies, io \in IOCases :
          Express /\ resource = "news" /\ PatchApiNewsId(id, body, io)

NextDelete ==
    \/ \E id \in ReqIds, io \in IOCases :
          Express /\ resource = "products" /\ GetApiProductsId(id, io)
    \/ \E id \in ReqIds, io \in IOCases, ul \in UnlinkOutcomes :
          Express /\ resource = "products" /\ DeleteApiProductsId(id, io, ul)
    \/ \E id \in ReqIds, io \in IOCases :
          Express /\ resource = "experiences" /\ GetApiExperiencesId(id, io)
    \/ \E id \in ReqIds, io \in IOCases :
          Express /\ resource = "experiences" /\ DeleteApiExperiencesId(id, io)
    \/ \E id \in ReqIds, io \in IOCases :
          Express /\ resource = "team" /\ GetApiTeamsId(id, io)
    \/ \E id \in ReqIds, io \in IOCases, ul \in UnlinkOutcomes :
          Express /\ resource = "team" /\ DeleteApiTeamsId(id, io, ul)
    \/ \E id \in ReqIds, io \in IOCases :
          Express /\ resource = "contacts" /\ DeleteApiContactId(id, io)
    \/ \E id \in ReqIds, io \in IOCases, ul \in UnlinkOutcomes :
          Express /\ resource = "images" /\ DeleteApiImagesId(id, io, ul)
    \/ \E id \in ReqIds, io \in IOCases :
          Express /\ resource = "news" /\ GetApiNewsId(id, io)
    \/ \E id \in ReqIds, io \in IOCases :
          Express /\ resource = "news" /\ DeleteApiNewsId(id, io)
    \/ \E id \in ReqIds, io \in IOCases :
          Express /\ resource = "navigation" /\ DeleteApiParentNavsId(id, io)
    \/ \E id \in ReqIds, io \in IOCases :
          Express /\ resource = "navigation" /\ DeleteApiChildNavsId(id, io)
    \/ \E id \in ReqIds :
          JsonServer /\ ServerGetApiProductsId(id)
    \/ \E id \in ReqIds, io \in IOCases :
          JsonServer /\ ServerDeleteApiProductsId(id, io)

(***************************************************************************)
(* Product names of every shape, each posted to an empty store.            *)
(***************************************************************************)
SlugAlphabet == {"T", "a", " ", "\t", "A_ACUTE", "!"}

Names ==
    UNION {[1..n -> SlugAlphabet] : n \in 0..MaxNameLen} \cup {sTest, sAb}

InitSlug ==
    /\ server = "server-express"
    /\ NODE_ENV = "development"
    /\ resource = "products"
    /\ files = [app |-> MissingFile, tmp |-> MissingFile, parent |-> MissingFile]
    /\ req = NoReq
    /\ res = NoRes
    /\ faults = 0
    /\ DATABASE = EmptyDoc
    /\ ret = NoRet
    /\ disk = {}
    /\ imgReq = NoImgReq
    /\ imgRes = NoImgRes
    /\ inflight = NoInflight

NextSlug ==
    \E n \in Names :
        /\ files["app"] = MissingFile
        /\ PostApiProducts([BlankBody EXCEPT !.name = n], <<>>, AllOk)

SpecSlug == InitSlug /\ [][NextSlug]_vars

\* the image files a run starts with
DiskDirs == {<<"images">>, <<"images", "uploads">>, <<"/tmp", "uploads">>}

DiskNames ==
    {Name("123", ".jpg"), Name("photo", ".gif"), Name("1747711777614-639500359", ".jpg"),
     Name("default", ".jpg"), Name("placeholder", ".jpg")}

DiskFiles == {File(d, n) : d \in DiskDirs, n \in DiskNames}

InitImg ==
    /\ NODE_ENV = "development"
    /\ resource = "images"
    /\ files = [app |-> MissingFile, tmp |-> MissingFile, parent |-> MissingFile]
    /\ req = NoReq
    /\ res = NoRes
    /\ faults = 0
    /\ server = "image-proxy"
    /\ DATABASE = EmptyDoc
    /\ ret = NoRet
    /\ disk \in {d \in SUBSET DiskFiles : Cardinality(d) <= MaxFiles}
    /\ imgReq = NoImgReq
    /\ imgRes = NoImgRes
    /\ inflight = NoInflight

NextImg ==
    \/ \E r \in ImageRequests : ImageRouterGet(r)
    \/ \E r \in ImageRequests : ImageWorkaroundGet(r)
    \/ \E r \in ImageRequests, accept \in AcceptKinds : ImageNotFound(r, accept)

SpecImg == InitImg /\ [][NextImg]_vars

(***************************************************************************)
(* res.json called with the payloads of the call sites: the arrays sent    *)
(* bare and the objects that carry a statusCode, with and without data.    *)
(***************************************************************************)
JsonPaths == {"/api/users", "/api/products/1", "/health"}

JsonStatuses == {200, 201, 404, 500}

Payloads ==
    {Body(0, "", "array", list) : list \in {<<>>, <<SeedRec(1, sTest)>>}}
    \cup {Body(c, m, "none", BlankRec) :
            c \in {200, 400, 404, 500}, m \in {"Success", "Product not found"}}
    \cup {Body(c, m, "null", BlankRec) : c \in {200}, m \in {"Success"}}
    \cup {Body(c, m, "record", rec) :
            c \in {200, 201}, m \in {"Success", "Product created successfully"},
            rec \in {SeedRec(1, sTest), SeedRec(2, sAb)}}
    \cup {Body(c, m, "array", list) :
            c \in {200}, m \in {"Success"}, list \in {<<>>, <<SeedRec(1, sTest)>>}}

InitEnvelope ==
    /\ NODE_ENV = "development"
    /\ resource = "res.json"
    /\ files = [app |-> MissingFile, tmp |-> MissingFile, parent |-> MissingFile]
    /\ req = NoReq
    /\ res = NoRes
    /\ faults = 0
    /\ server = "server-express"
    /\ DATABASE = EmptyDoc
    /\ ret = NoRet
    /\ disk = {}
    /\ imgReq = NoImgReq
    /\ imgRes = NoImgRes
    /\ inflight = NoInflight

\* res.status(status).json(payload) in a handler reached on path
CallResJson(path, status, payload) ==
    /\ ret' = [fn |-> "res.json", path |-> path, status |-> status, payload |-> payload]
    /\ res' = resJson(path, status, payload)
    /\ UNCHANGED <<NODE_ENV, resource, files, req, faults, server, DATABASE,
                   imageVars, inflight>>

NextEnvelope ==
    \E path \in JsonPaths, status \in JsonStatuses, payload \in Payloads :
        CallResJson(path, status, payload)

SpecEnvelope == InitEnvelope /\ [][NextEnvelope]_vars

(***************************************************************************)
(* The product list.  A stored product carries what the list looks at: its *)
(* id, its two category fields (0 when the record has none) and its        *)
(* isFeatured.  Creates append max + 1 and deletes splice, so a stored     *)
(* list is in ascending order of id.                                       *)
(***************************************************************************)
MaxList == 2         \* most products in the store when a list is asked for

ListedProduct(id, categoryId, child_nav_id, isFeatured) ==
    [id |-> id, categoryId |-> categoryId, child_nav_id |-> child_nav_id,
     isFeatured |-> isFeatured]

\* defaultProducts of GET /api/products
defaultProducts == <<ListedProduct(1, 2, 2, TRUE), ListedProduct(2, 2, 2, TRUE)>>

\* db.products.map(product => ({...})): the fields the filters read
listedFields(product) ==
    [product EXCEPT
        !.child_nav_id = IF product.child_nav_id # 0 THEN product.child_nav_id
                         ELSE IF product.categoryId # 0 THEN product.categoryId ELSE 2,
        !.categoryId = IF product.categoryId # 0 THEN product.categoryId
                       ELSE IF product.child_nav_id # 0 THEN product.child_nav_id ELSE 2]

\* Array.prototype.filter
SelectSeq2(list, keep) ==
    LET F[i \in 0..Len(list)] ==
            IF i = 0 THEN <<>>
            ELSE IF keep[i] THEN Append(F[i - 1], list[i]) ELSE F[i - 1]
    IN  F[Len(list)]

\* list.slice(0, n) for n >= 0
slice(list, n) == SubSeq(list, 1, IF n < Len(list) THEN n ELSE Len(list))

\* the list GET /api/products builds from db.products and req.query
listProducts(products, query) ==
    LET mapped == IF Len(products) > 0
                  THEN [i \in 1..Len(products) |-> listedFields(products[i])]
                  ELSE defaultProducts
        byCategory ==
            IF query.category # 0
            THEN SelectSeq2(mapped, [i \in 1..Len(mapped) |->
                     mapped[i].categoryId = query.category
                     \/ mapped[i].child_nav_id = query.category])
            ELSE mapped
        byFeatured ==
            IF query.featured = "true"
            THEN SelectSeq2(byCategory, [i \in 1..Len(byCategory) |-> byCategory[i].isFeatured])
            ELSE byCategory
    IN  IF query.limit # 0 THEN slice(byFeatured, query.limit) ELSE byFeatured

\* GET /api/products
GetApiProducts(query, io) ==
    LET g == getDatabase(files, NODE_ENV, io.repair)
    IN  /\ req' = [Req("list", "products", 0, BlankBody, <<>>) EXCEPT !.query = query]
        /\ CountFault(io)
        /\ UNCHANGED expressFrame
        /\ UNCHANGED disk
        /\ files' = g.files
        /\ res' = Json(200, 200, "Success", "array", listProducts(g.db.products, query))

\* the stored products of one id: with no category field, featured or
\* not, with categoryId only, and with child_nav_id only
StoredProducts ==
    UNION {{ListedProduct(id, 0, 0, TRUE), ListedProduct(id, 0, 0, FALSE),
            ListedProduct(id, 1, 0, TRUE), ListedProduct(id, 0, 1, FALSE)} :
           id \in 1..MaxId}

\* lists of at most MaxList stored products in ascending order of id
StoredLists ==
    UNION {{l \in [1..n -> StoredProducts] :
               \A i \in 1..(n - 1) : l[i].id < l[i + 1].id} : n \in 0..MaxList}

Queries ==
    {[category |-> c, featured |-> f, limit |-> n] :
        c \in {0, 1, 2}, f \in {"", "true"}, n \in {0, 1, 2}}

InitList ==
    /\ NODE_ENV = "development"
    /\ resource = "products"
    /\ \E l \in StoredLists :
          files = [app |-> JsonFile([EmptyDoc EXCEPT !.products = l,
                                                    !.navigation = DefaultNavigation]),
                   tmp |-> MissingFile, parent |-> MissingFile]
    /\ req = NoReq
    /\ res = NoRes
    /\ faults = 0
    /\ server = "server-express"
    /\ DATABASE = EmptyDoc
    /\ ret = NoRet
    /\ disk = {}
    /\ imgReq = NoImgReq
    /\ imgRes = NoImgRes
    /\ inflight = NoInflight

\* the list only reads: the one write it can cause is getDatabase's repair
ReadIOCases == IOCases \cap {AllOk, [AllOk EXCEPT !.repair = "eacces"]}

NextList == \E query \in Queries, io \in ReadIOCases : GetApiProducts(query, io)

SpecList == InitList /\ [][NextList]_vars

(***************************************************************************)
(* The first CORS middleware of the stack, in the Express content server   *)
(* and in cors-middleware.js, and the layer that follows it.  A request    *)
(* enters the stack, the first middleware runs, and when it calls next the *)
(* following layer runs.                                                   *)
(***************************************************************************)
Methods == {"GET", "POST", "PUT", "DELETE", "PATCH", "HEAD", "OPTIONS"}

CorsPaths == {"/", "/api/products", "/api/services", "/images/placeholder.jpg"}

Origins == {"", "https://thontrangliennhat.com"}

CorsStacks == {"server-express", "cors-middleware"}

NoHeaders ==
    [allowOrigin |-> "", allowMethods |-> "", allowHeaders |-> "",
     allowCredentials |-> "", maxAge |-> ""]

\* a request at the head of the stack: nothing set, nothing sent
Incoming(stack, method, path, origin) ==
    [fn |-> "request", stack |-> stack, method |-> method, path |-> path,
     origin |-> origin, stage |-> "first", headers |-> NoHeaders,
     status |-> 0, ended |-> FALSE, nextCalls |-> 0, ran |-> <<>>]

\* the res.header calls of the first middleware of the stack
corsHeaders(stack) ==
    [allowOrigin |-> "*",
     allowMethods |-> "GET, POST, PUT, DELETE, OPTIONS, PATCH",
     allowHeaders |-> IF stack = "server-express" THEN "*"
                      ELSE "X-Requested-With, Content-Type, Accept, Authorization, Cache-Control",
     allowCredentials |-> "true",
     maxAge |-> "86400"]

\* a first middleware that calls next for every method
corsMiddlewareAlwaysNext(r) ==
    [r EXCEPT !.headers = corsHeaders(r.stack),
              !.nextCalls = @ + 1,
              !.stage = "later"]

\* corsMiddleware of cors-middleware.js and the first app.use of the
\* Express content server
corsMiddleware(r) ==
    IF r.method = "OPTIONS"
    THEN [r EXCEPT !.headers = corsHeaders(r.stack),
                   !.status = 200,
                   !.ended = TRUE,
                   !.stage = "done"]
    ELSE [r EXCEPT !.headers = corsHeaders(r.stack),
                   !.nextCalls = @ + 1,
                   !.stage = "later"]

\* the layer behind the first middleware: it answers the request
laterLayer(r) ==
    [r EXCEPT !.ran = Append(@, "later"),
              !.status = IF r.method = "OPTIONS" THEN 204 ELSE 200,
              !.ended = TRUE,
              !.stage = "done"]

corsFrame ==
    <<NODE_ENV, resource, files, req, res, faults, server, DATABASE, imageVars, inflight>>

InitCors ==
    /\ NODE_ENV = "development"
    /\ resource = "cors"
    /\ files = [app |-> MissingFile, tmp |-> MissingFile, parent |-> MissingFile]
    /\ req = NoReq
    /\ res = NoRes
    /\ faults = 0
    /\ server = "server-express"
    /\ DATABASE = EmptyDoc
    /\ ret = NoRet
    /\ disk = {}
    /\ imgReq = NoImgReq
    /\ imgRes = NoImgRes
    /\ inflight = NoInflight

\* a request arrives once the one before it is answered
Arrive(stack, method, path, origin) ==
    /\ ret.fn = "none" \/ (ret.fn = "request" /\ ret.stage = "done")
    /\ ret' = Incoming(stack, method, path, origin)
    /\ UNCHANGED corsFrame

RunCorsMiddleware ==
    /\ ret.fn = "request"
    /\ ret.stage = "first"
    /\ ret' = corsMiddleware(ret)
    /\ UNCHANGED corsFrame

RunLaterLayer ==
    /\ ret.fn = "request"
    /\ ret.stage = "later"
    /\ ret' = laterLayer(ret)
    /\ UNCHANGED corsFrame

NextCors ==
    \/ \E stack \in CorsStacks, method \in Methods, path \in CorsPaths, origin \in Origins :
          Arrive(stack, method, path, origin)
    \/ RunCorsMiddleware
    \/ RunLaterLayer

SpecCors == InitCors /\ [][NextCors]_vars

(***************************************************************************)
(* The error middleware of the app that mounts the routers: a request that *)
(* matches no route reaches notFoundHandler, and an error goes through     *)
(* corsErrorHandler, corsErrorRecovery and errorHandler in that order.     *)
(* Texts are sequences of characters, so that String.prototype.includes    *)
(* is a search.  corsMiddleware ends every OPTIONS request at the head of  *)
(* this app's stack, so the requests that get this far are not OPTIONS.    *)
(***************************************************************************)
sCORS ==
    <<"C", "O", "R", "S">>

sCrossOrigin ==
    <<"c", "r", "o", "s", "s", "-", "o", "r", "i", "g", "i", "n">>

sAccessControl ==
    <<"A", "c", "c", "e", "s", "s", "-", "C", "o", "n", "t", "r", "o", "l">>

sAccessControlAllowOrigin ==
    <<"A", "c", "c", "e", "s", "s", "-", "C", "o", "n", "t", "r", "o", "l", "-",
    "A", "l", "l", "o", "w", "-", "O", "r", "i", "g", "i", "n">>

sRouteNotFound ==
    <<"R", "o", "u", "t", "e", " ", "n", "o", "t", " ", "f", "o", "u", "n", "d",
    ":", " ">>

sResourceNotFound ==
    <<"R", "e", "s", "o", "u", "r", "c", "e", " ", "n", "o", "t", " ", "f", "o",
    "u", "n", "d">>

sInvalidRequestData ==
    <<"I", "n", "v", "a", "l", "i", "d", " ", "r", "e", "q", "u", "e", "s", "t",
    " ", "d", "a", "t", "a">>

sNotAuthorized ==
    <<"N", "o", "t", " ", "a", "u", "t", "h", "o", "r", "i", "z", "e", "d">>

sCorsBlocked ==
    <<"C", "O", "R", "S", " ", "e", "r", "r", "o", "r", " ", "-", " ", "c", "r",
    "o", "s", "s", "-", "o", "r", "i", "g", "i", "n", " ", "r", "e", "q", "u",
    "e", "s", "t", " ", "b", "l", "o", "c", "k", "e", "d">>

sDatabaseError ==
    <<"D", "a", "t", "a", "b", "a", "s", "e", " ", "e", "r", "r", "o", "r">>

sUnexpected ==
    <<"A", "n", " ", "u", "n", "e", "x", "p", "e", "c", "t", "e", "d", " ", "e",
    "r", "r", "o", "r", " ", "o", "c", "c", "u", "r", "r", "e", "d">>

\* String.prototype.includes
includes(text, needle) ==
    \E i \in 0..(Len(text) - Len(needle)) : SubSeq(text, i + 1, i + Len(needle)) = needle

\* req.method as text
methodText(method) ==
    CASE method = "GET" -> <<"G", "E", "T">>
      [] method = "POST" -> <<"P", "O", "S", "T">>
      [] method = "DELETE" -> <<"D", "E", "L", "E", "T", "E">>
      [] OTHER -> <<"O", "P", "T", "I", "O", "N", "S">>

ERROR_TYPES == {"NOT_FOUND", "VALIDATION", "AUTHORIZATION", "INTERNAL", "CORS", "DATABASE"}

\* an Error: its type ("" when none was set) and its message
Err(type, message) == [type |-> type, message |-> message]

\* a request on its way through the error middleware
Failing(from, stage, method, url, err) ==
    [fn |-> "error", from |-> from, stage |-> stage, method |-> method, url |-> url,
     err |-> err, recovered |-> FALSE]

\* the body errorHandler sends, or the empty 200 that ends an OPTIONS request
ErrRes(status, type, message, body) ==
    [status |-> status, statusCode |-> IF body = "json" THEN status ELSE 0,
     success |-> FALSE, errorType |-> type, message |-> message, body |-> body]

\* notFoundHandler
notFoundHandler(r) ==
    [r EXCEPT !.err = Err("NOT_FOUND",
                          sRouteNotFound \o methodText(r.method) \o <<" ">> \o r.url),
              !.stage = "corsErrorHandler"]

\* corsErrorHandler
corsErrorHandler(r) ==
    [r EXCEPT !.err.type =
                 IF /\ Len(r.err.message) > 0
                    /\ \/ includes(r.err.message, sCORS)
                       \/ includes(r.err.message, sCrossOrigin)
                       \/ includes(r.err.message, sAccessControlAllowOrigin)
                 THEN "CORS" ELSE @,
              !.stage = "corsErrorRecovery"]

\* the test of corsErrorRecovery
suggestsCors(err) ==
    /\ Len(err.message) > 0
    /\ \/ includes(err.message, sCORS)
       \/ includes(err.message, sCrossOrigin)
       \/ includes(err.message, sAccessControl)

\* corsErrorRecovery: the request as it goes on, "done" when it was ended
corsErrorRecovery(r) ==
    [r EXCEPT !.recovered = suggestsCors(r.err),
              !.stage = IF suggestsCors(r.err) /\ r.method = "OPTIONS"
                        THEN "done" ELSE "errorHandler"]

\* statusCode of errorHandler
errorStatus(err) ==
    CASE err.type = "NOT_FOUND" -> 404
      [] err.type = "VALIDATION" -> 400
      [] err.type \in {"AUTHORIZATION", "CORS"} -> 403
      [] OTHER -> 500

\* err.message || the default text of the type
errorMessage(err) ==
    IF err.type \in {"NOT_FOUND", "VALIDATION", "AUTHORIZATION", "CORS", "DATABASE"}
       /\ Len(err.message) > 0
    THEN err.message
    ELSE CASE err.type = "NOT_FOUND" -> sResourceNotFound
           [] err.type = "VALIDATION" -> sInvalidRequestData
           [] err.type = "AUTHORIZATION" -> sNotAuthorized
           [] err.type = "CORS" -> sCorsBlocked
           [] err.type = "DATABASE" -> sDatabaseError
           [] OTHER -> sUnexpected

\* errorHandler
errorHandler(r) ==
    IF r.method = "OPTIONS"
    THEN ErrRes(200, "", <<>>, "end")
    ELSE ErrRes(errorStatus(r.err),
                IF r.err.type # "" THEN r.err.type ELSE "INTERNAL",
                errorMessage(r.err), "json")

errFrame ==
    <<NODE_ENV, resource, files, req, faults, server, DATABASE, imageVars, inflight>>

ErrMethods == {"GET", "POST", "DELETE"}

\* URLs that match no route: /nope, /cors, /CORS and /cross-origin
ErrUrls ==
    {<<"/", "n", "o", "p", "e">>, <<"/", "c", "o", "r", "s">>, <<"/">> \o sCORS,
     <<"/">> \o sCrossOrigin}

\* the errors a route hands to next(err): every type and none, with and
\* without a message
RouteErrors ==
    {Err(type, message) :
        type \in ERROR_TYPES \cup {""},
        message \in {<<>>, <<"n", "o">>, sCORS \o <<" ", "n", "o">>}}

InitErr ==
    /\ NODE_ENV = "development"
    /\ resource = "errors"
    /\ files = [app |-> MissingFile, tmp |-> MissingFile, parent |-> MissingFile]
    /\ req = NoReq
    /\ res = NoRes
    /\ faults = 0
    /\ server = "index"
    /\ DATABASE = EmptyDoc
    /\ ret = NoRet
    /\ disk = {}
    /\ imgReq = NoImgReq
    /\ imgRes = NoImgRes
    /\ inflight = NoInflight

\* a request that matched no route reaches app.use(notFoundHandler)
ArriveUnmatched(method, url) ==
    /\ ret.fn = "none" \/ (ret.fn = "error" /\ ret.stage = "done")
    /\ ret' = Failing("unmatched", "notFoundHandler", method, url, Err("", <<>>))
    /\ res' = NoRes
    /\ UNCHANGED errFrame

\* a route calls next(err)
RouteCallsNext(method, url, err) ==
    /\ ret.fn = "none" \/ (ret.fn = "error" /\ ret.stage = "done")
    /\ ret' = Failing("route", "corsErrorHandler", method, url, err)
    /\ res' = NoRes
    /\ UNCHANGED errFrame

RunNotFoundHandler ==
    /\ ret.fn = "error"
    /\ ret.stage = "notFoundHandler"
    /\ ret' = notFoundHandler(ret)
    /\ UNCHANGED res
    /\ UNCHANGED errFrame

RunCorsErrorHandler ==
    /\ ret.fn = "error"
    /\ ret.stage = "corsErrorHandler"
    /\ ret' = corsErrorHandler(ret)
    /\ UNCHANGED res
    /\ UNCHANGED errFrame

RunCorsErrorRecovery ==
    /\ ret.fn = "error"
    /\ ret.stage = "corsErrorRecovery"
    /\ ret' = corsErrorRecovery(ret)
    /\ res' = IF corsErrorRecovery(ret).stage = "done"
              THEN ErrRes(200, "", <<>>, "end") ELSE res
    /\ UNCHANGED errFrame

RunErrorHandler ==
    /\ ret.fn = "error"
    /\ ret.stage = "errorHandler"
    /\ ret' = [ret EXCEPT !.stage = "done"]
    /\ res' = errorHandler(ret)
    /\ UNCHANGED errFrame

NextErr ==
    \/ \E method \in ErrMethods, url \in ErrUrls : ArriveUnmatched(method, url)
    \/ \E method \in ErrMethods, url \in ErrUrls, err \in RouteErrors :
          RouteCallsNext(method, url, err)
    \/ RunNotFoundHandler
    \/ RunCorsErrorHandler
    \/ RunCorsErrorRecovery
    \/ RunErrorHandler

SpecErr == InitErr /\ [][NextErr]_vars

(***************************************************************************)
(* The GET routes under /api/parent-navs/slug/ in the order the Express    *)
(* content server registers them.  Express hands a request to the first    *)
(* route whose path matches; neither handler calls next.                   *)
(***************************************************************************)
sTinTucSlug == <<"t", "i", "n", "-", "t", "u", "c">>
sDichVuSlug == <<"d", "i", "c", "h", "-", "v", "u">>
sSanPhamSlug == <<"s", "a", "n", "-", "p", "h", "a", "m">>
sTraiNghiemSlug == <<"t", "r", "a", "i", "-", "n", "g", "h", "i", "e", "m">>
sTatCa == <<"t", "a", "t", "-", "c", "a", "-">>
sNoiBat == <<"n", "o", "i", "-", "b", "a", "t", "-">>
sDanhMuc == <<"d", "a", "n", "h", "-", "m", "u", "c">>

\* a route of app.get: the text after /api/parent-navs/slug/, a parameter
\* or a literal, and its handler
SlugRoute(param, text, handler) == [param |-> param, text |-> text, handler |-> handler]

\* app.get('/api/parent-navs/slug/:slug') precedes
\* app.get('/api/parent-navs/slug/tin-tuc')
slugRoutes ==
    << SlugRoute(TRUE, <<>>, "slug/:slug"), SlugRoute(FALSE, sTinTucSlug, "slug/tin-tuc") >>

\* the path /api/parent-navs/slug/<last> matches the route
routeMatches(route, last) == route.param \/ route.text = last

\* the handler of the first route that matches
firstMatch(routes, last) ==
    routes[CHOOSE i \in 1..Len(routes) :
              /\ routeMatches(routes[i], last)
              /\ \A j \in 1..(i - 1) : ~routeMatches(routes[j], last)].handler

\* a category of the lists the two handlers make up
Category(id, slug) == [id |-> id, slug |-> slug, parentId |-> 1]

\* newsCategories
newsCategories ==
    << Category(1, "tin-tuc-nong-nghiep"), Category(2, "tin-tuc-su-kien"),
       Category(3, "thong-bao"), Category(4, "hoat-dong-cong-dong"),
       Category(5, "chinh-sach-moi"), Category(6, "kinh-nghiem-nong-nghiep"),
       Category(7, "ky-thuat-canh-tac") >>

\* data of app.get('/api/parent-navs/slug/:slug')
categoriesBySlug(db, slug) ==
    IF slug \in {sDichVuSlug, sSanPhamSlug, sTraiNghiemSlug}
    THEN << Category(1, sTatCa \o slug), Category(2, sNoiBat \o slug) >>
    ELSE IF \E i \in 1..Len(db.navigation) : db.navigation[i].slug = slug
    THEN db.navigation[CHOOSE i \in 1..Len(db.navigation) :
                          /\ db.navigation[i].slug = slug
                          /\ \A j \in 1..(i - 1) : db.navigation[j].slug # slug].children
    ELSE << Category(1, sDanhMuc) >>

\* GET /api/parent-navs/slug/<slug>
GetApiParentNavsSlug(slug, io) ==
    LET handler == firstMatch(slugRoutes, slug)
        g == getDatabase(files, NODE_ENV, io.repair)
    IN  /\ req' = Req("get-slug", "navigation", 0, [BlankBody EXCEPT !.slug = slug], <<>>)
        /\ UNCHANGED expressFrame
        /\ UNCHANGED disk
        /\ IF handler = "slug/:slug"
           THEN /\ CountFault(io)
                /\ files' = g.files
                /\ res' = Json(200, 200, "Success", "array", categoriesBySlug(g.db, slug))
           ELSE /\ io = AllOk
                /\ UNCHANGED <<files, faults>>
                /\ res' = Json(200, 200, "News categories fetched successfully", "array",
                               newsCategories)

\* navigation with a parent for the news, after the seed's parents
NewsNavigation ==
    SeedNavigation \o
    << [id |-> 3, title |-> sTest, slug |-> sTinTucSlug,
        children |-> <<SeedChild(4, 3)>>] >>

RequestSlugs ==
    {sTinTucSlug, sDichVuSlug, sSanPhamSlug, sTraiNghiemSlug, sTrangChuSlug, <<"t">>,
     <<"x">>}

InitRoute ==
    /\ NODE_ENV \in {"development", "production"}
    /\ resource = "navigation"
    /\ \E f \in {MissingFile, JsonFile(SeedDocOf(1)), JsonFile(SeedDocOf(2)),
                 JsonFile([SeedDocOf(1) EXCEPT !.navigation = NewsNavigation])} :
          files = [app |-> IF NODE_ENV = "production" THEN MissingFile ELSE f,
                   tmp |-> IF NODE_ENV = "production" THEN f ELSE MissingFile,
                   parent |-> MissingFile]
    /\ req = NoReq
    /\ res = NoRes
    /\ faults = 0
    /\ server = "server-express"
    /\ DATABASE = EmptyDoc
    /\ ret = NoRet
    /\ disk = {}
    /\ imgReq = NoImgReq
    /\ imgRes = NoImgRes
    /\ inflight = NoInflight

NextRoute == \E slug \in RequestSlugs, io \in ReadIOCases : GetApiParentNavsSlug(slug, io)

SpecRoute == InitRoute /\ [][NextRoute]_vars

(***************************************************************************)
(* Login.  No handler writes db.users: the users are those of the database *)
(* file.                                                                   *)
(***************************************************************************)
User(id, email, password) == [id |-> id, email |-> email, password |-> password]

\* the data of a successful login; the expiry times are left out
LoginData(user) ==
    [accessToken |-> "fake-token-123456", refreshToken |-> "fake-refresh-token-123456",
     user |-> [id |-> user.id, email |-> user.email]]

\* db.users.find(u => u.email === email): 0 stands for undefined
findUser(users, email) ==
    IF \E i \in 1..Len(users) : users[i].email = email
    THEN CHOOSE i \in 1..Len(users) :
            /\ users[i].email = email
            /\ \A j \in 1..(i - 1) : users[j].email # email
    ELSE 0

\* POST /api/auth/login
PostApiAuthLogin(email, password, io) ==
    LET g == getDatabase(files, NODE_ENV, io.repair)
        i == findUser(g.db.users, email)
    IN  /\ req' = [Req("login", "users", 0, BlankBody, <<>>) EXCEPT
                      !.body = [email |-> email, password |-> password]]
        /\ CountFault(io)
        /\ UNCHANGED expressFrame
        /\ UNCHANGED disk
        /\ files' = g.files
        /\ res' = IF /\ i # 0
                     /\ \/ password = "password"
                        \/ password = "dat12345"
                        \/ password = g.db.users[i].password
                  THEN Json(200, 200, "Login successful", "record", LoginData(g.db.users[i]))
                  ELSE Json(401, 401, "Invalid credentials", "none", BlankRec)

Emails == {"admin@example.com", "editor@example.com"}
Passwords == {"s3cret", "hunter2"}

\* the users a database file holds: none, one, or two of different emails
UserLists ==
    {<<>>}
    \cup {<<User(1, e, pw)>> : e \in Emails, pw \in Passwords}
    \cup {<<User(1, "admin@example.com", p1), User(2, "editor@example.com", p2)>> :
             p1 \in Passwords, p2 \in Passwords}

\* what a client sends: the emails of the users and one of nobody, their
\* passwords, a wrong one, and the two texts the handler compares with
LoginEmails == Emails \cup {"nobody@example.com"}
LoginPasswords == Passwords \cup {"wrong", "password", "dat12345"}

InitLogin ==
    /\ NODE_ENV \in {"development", "production"}
    /\ resource = "users"
    /\ \E users \in UserLists :
          LET f == JsonFile([SeedDocOf(1) EXCEPT !.users = users])
          IN  files = [app |-> IF NODE_ENV = "production" THEN MissingFile ELSE f,
                       tmp |-> IF NODE_ENV = "production" THEN f ELSE MissingFile,
                       parent |-> MissingFile]
    /\ req = NoReq
    /\ res = NoRes
    /\ faults = 0
    /\ server = "server-express"
    /\ DATABASE = EmptyDoc
    /\ ret = NoRet
    /\ disk = {}
    /\ imgReq = NoImgReq
    /\ imgRes = NoImgRes
    /\ inflight = NoInflight

NextLogin ==
    \E email \in LoginEmails, password \in LoginPasswords, io \in ReadIOCases :
        PostApiAuthLogin(email, password, io)

SpecLogin == InitLogin /\ [][NextLogin]_vars

(***************************************************************************)
(* Two clients update products at the same time.  The upload middleware    *)
(* reads a request's body asynchronously, so the two requests are accepted *)
(* in either order and each may be accepted before or after the other's    *)
(* handler runs; the handler itself is one synchronous call from its       *)
(* getDatabase to its writeDatabase.                                       *)
(***************************************************************************)
ClientBody(c) ==
    IF c = "A" THEN [BlankBody EXCEPT !.name = sAb, !.price = sNine]
               ELSE [BlankBody EXCEPT !.summary = sS2]

Other(c) == IF c = "A" THEN "B" ELSE "A"

\* upload.array('images[]', 5) takes the request in
AcceptUpdate(c, id) ==
    /\ inflight[c].stage = "idle"
    /\ inflight' = [inflight EXCEPT ![c].stage = "accepted", ![c].id = id]
    /\ UNCHANGED <<NODE_ENV, resource, files, req, res, faults, server, DATABASE,
                   ret, imageVars>>

\* the handler of POST /api/products/:id runs for an accepted request
HandleUpdate(c, io) ==
    LET out == updateProduct(files, NODE_ENV, inflight[c].id, ClientBody(c), <<>>, io)
        served == Cardinality({d \in Clients : inflight[d].stage = "done"})
    IN  /\ inflight[c].stage = "accepted"
        /\ req' = Req("update", "products", inflight[c].id, ClientBody(c), <<>>)
        /\ CountFault(io)
        /\ files' = out.files
        /\ res' = out.res
        /\ inflight' = [inflight EXCEPT
                           ![c].stage = "done",
                           ![c].seq = served + 1,
                           ![c].overlapped = (inflight[Other(c)].stage = "accepted"),
                           ![c].status = out.res.status]
        /\ UNCHANGED <<NODE_ENV, resource, server, DATABASE, ret, imageVars>>

InitConc ==
    /\ server = "server-express"
    /\ NODE_ENV \in {"development", "production"}
    /\ resource = "products"
    /\ \E f \in InitFiles :
          files = [app |-> IF NODE_ENV = "production" THEN JsonFile(FullDoc) ELSE f,
                   tmp |-> IF NODE_ENV = "production" THEN f ELSE MissingFile,
                   parent |-> MissingFile]
    /\ req = NoReq
    /\ res = NoRes
    /\ faults = 0
    /\ DATABASE = EmptyDoc
    /\ ret = NoRet
    /\ disk = SeedDisk
    /\ imgReq = NoImgReq
    /\ imgRes = NoImgRes
    /\ inflight = NoInflight

NextConc ==
    \/ \E c \in Clients, id \in ReqIds : AcceptUpdate(c, id)
    \/ \E c \in Clients, io \in IOCases : HandleUpdate(c, io)

SpecConc == InitConc /\ [][NextConc]_vars

Next == NextCreate \/ NextUpdate \/ NextDelete

Spec == Init /\ [][Next]_vars
SpecCreate == Init /\ [][NextCreate]_vars
SpecUpdate == Init /\ [][NextUpdate]_vars
SpecDelete == Init /\ [][NextDelete]_vars

SpecPatch == Init /\ [][NextPatch]_vars

\* creates and deletes in any order, of the products and the team of the
\* Express content server and of the products of the json-server variant;
\* the ids do not depend on what a body or an upload holds
PlainSubmissions == {s \in Submissions : s.upl = <<>>}

NextCreateDelete ==
    \/ \E s \in PlainSubmissions, io \in IOCases :
          Express /\ resource = "products" /\ PostApiProducts(s.body, s.upl, io)
    \/ \E id \in ReqIds, io \in IOCases :
          Express /\ resource = "products" /\ DeleteApiProductsId(id, io, "ok")
    \/ \E s \in PlainSubmissions, io \in IOCases :
          Express /\ resource = "team" /\ PostApiTeams(s.body, s.upl, io)
    \/ \E id \in ReqIds, io \in IOCases :
          Express /\ resource = "team" /\ DeleteApiTeamsId(id, io, "ok")
    \/ \E s \in PlainSubmissions, io \in IOCases :
          JsonServer /\ ServerPostApiProducts(s.body, s.upl, io)
    \/ \E id \in ReqIds, io \in IOCases :
          JsonServer /\ ServerDeleteApiProductsId(id, io)

SpecCreateDelete == Init /\ [][NextCreateDelete]_vars

(***************************************************************************)
(* Properties.                                                             *)
(***************************************************************************)
\* the collection a request is about, as the store holds it
Collection(fs, env, coll) == getDatabase(fs, env, "ok").db[coll]

\* C1: every create that succeeds returns a record whose id is one greater
\* than the largest id the collection held immediately before the create,
\* or 1 when the collection was empty.
CreateReturnsMaxIdPlusOne ==
    [][ (req'.op = "create" /\ res'.statusCode = 201) =>
            LET before == Ids(Collection(files, NODE_ENV, req'.coll))
            IN  IF before = {}
                THEN res'.data.id = 1
                ELSE \E m \in before :
                        /\ \A x \in before : x <= m
                        /\ res'.data.id = m + 1 ]_vars

\* a product was created with id 3 in a collection that held only id 2
CreateAfterGapReached ==
    /\ req.op = "create"
    /\ req.coll = "products"
    /\ res.statusCode = 201
    /\ res.data.id = 3
    /\ Ids(Collection(files, NODE_ENV, "products")) = {2, 3}

\* the document a handler of the running server works on
StoreDoc(fs, env, srv, mem) ==
    IF srv = "json-server" THEN mem ELSE getDatabase(fs, env, "ok").db

\* the list a request on coll searches, and the ids found in it
TargetList(doc, coll) == IF coll = "child-navs" THEN doc.navigation ELSE doc[coll]
TargetIds(doc, coll) ==
    IF coll = "child-navs"
    THEN UNION {Ids(doc.navigation[i].children) : i \in 1..Len(doc.navigation)}
    ELSE Ids(doc[coll])

\* C2: a delete whose id matches no record of the target collection is
\* answered 404 and leaves the collection as it was before the request.
DeleteOfUnknownIdIsNotFound ==
    [][ LET before == StoreDoc(files, NODE_ENV, server, DATABASE)
            after == StoreDoc(files', NODE_ENV', server', DATABASE')
        IN  (req'.op = "delete" /\ req'.id \notin TargetIds(before, req'.coll)) =>
                /\ res'.status = 404
                /\ res'.statusCode = 404
                /\ TargetList(after, req'.coll) = TargetList(before, req'.coll) ]_vars

\* a child navigation item that does not exist was asked to be deleted,
\* while the navigation holds its three seed children
DeleteOfUnknownChildReached ==
    /\ req.op = "delete"
    /\ req.coll = "child-navs"
    /\ req.id = NoSuchId
    /\ res.status = 404
    /\ TargetIds(StoreDoc(files, NODE_ENV, server, DATABASE), "child-navs") = {1, 2, 3}

\* C6: a get-by-id for a product id that no product has is answered with
\* status 404 and the body {statusCode: 404, message: "Product not found"},
\* and the products collection is not modified.
GetOfUnknownProductIsNotFound ==
    [][ LET before == StoreDoc(files, NODE_ENV, server, DATABASE)
            after == StoreDoc(files', NODE_ENV', server', DATABASE')
        IN  (req'.op = "get" /\ req'.coll = "products"
                /\ req'.id \notin Ids(before.products)) =>
                /\ res'.status = 404
                /\ res'.statusCode = 404
                /\ res'.message = "Product not found"
                /\ after.products = before.products ]_vars

\* the Express content server answered a get for a product id that none
\* of its two products has
GetOfUnknownProductReached ==
    /\ server = "server-express"
    /\ req.op = "get"
    /\ req.coll = "products"
    /\ req.id = NoSuchId
    /\ res.status = 404
    /\ Len(StoreDoc(files, NODE_ENV, server, DATABASE).products) = 2

\* the record with the given id
RecordOf(list, id) == list[CHOOSE i \in 1..Len(list) : list[i].id = id]

TextFields ==
    {"name", "title", "slug", "summary", "content", "description", "price",
     "position"}

\* the fields an update handler takes from the request body as they are
MappedFields(coll) ==
    CASE coll = "products" -> {"name", "content", "summary"}
      [] coll = "services" -> {"name", "summary", "content"}
      [] coll = "experiences" -> {"name", "summary", "content"}
      [] coll = "team" -> {"name", "position", "description"}
      [] coll = "news" -> TextFields

\* the fields an update handler computes from other fields
DerivedFields(coll) ==
    CASE coll = "products" -> {}
      [] coll = "services" -> {"title", "slug", "description"}
      [] coll = "experiences" -> {"title", "slug", "description"}
      [] coll = "team" -> {}
      [] coll = "news" -> {}

LoadOfBadFileDefaultsNavigationAndTeam ==
    (ret.fn = "getDatabase" /\ ret.fileKind \in {"missing", "malformed"}) =>
        /\ \A k \in ArrayKeys \ {"team"} : ret.db[k] = <<>>
        /\ Len(ret.db.navigation) > 0
        /\ Len(ret.db.team) > 0

\* getDatabase was called on a missing file and returned an empty team
LoadOfMissingFileReached ==
    /\ ret.fn = "getDatabase"
    /\ ret.fileKind = "missing"
    /\ ret.db.team = <<>>
    /\ ret.db.navigation = DefaultNavigation

\* C10: writeDatabase returns true exactly when the write of the primary
\* file succeeded, and then the primary file holds the full document; a
\* failure of the write to the parent directory does not change the value
\* returned, and a failed primary write returns false and leaves the
\* primary file as it was.
SaveReturnsPrimaryOutcome ==
    ret.fn = "writeDatabase" =>
        LET primaryFile == files[dbPath(NODE_ENV)]
        IN  /\ ret.ok <=> (ret.primary = "ok")
            /\ ret.ok =>
                  /\ primaryFile.kind = "json"
                  /\ primaryFile.keys = AllKeys
                  /\ \A k \in ArrayKeys : primaryFile.doc[k] = ret.db[k]
                  /\ primaryFile.doc.navigation =
                        IF Len(ret.db.navigation) = 0
                        THEN DefaultNavigation
                        ELSE ret.db.navigation
            /\ ~ret.ok => primaryFile = ret.before

\* writeDatabase returned true although its write to the parent directory
\* failed, and the two copies differ
SaveWithFailedSiblingReached ==
    /\ ret.fn = "writeDatabase"
    /\ ret.ok
    /\ ret.parent = "eacces"
    /\ files["parent"] # files[dbPath(NODE_ENV)]

\* the character a name character gives in a slug
SlugCharOf(c) ==
    CASE c \in {"T", "t"} -> "t"
      [] c \in {"A", "A_ACUTE", "a"} -> "a"
      [] c \in {" ", "\t"} -> "-"
      [] OTHER -> c

\* the positions of a name that show in its slug: every character that is
\* not whitespace, and the first character of every whitespace run
SlugPositions(name) ==
    {i \in 1..Len(name) :
        \/ name[i] \notin {" ", "\t"}
        \/ i = 1
        \/ name[i - 1] \notin {" ", "\t"}}

\* C7: a product created with a name and no slug is returned with a slug
\* derived from the name: lower case, without whitespace or punctuation,
\* every letter in its place and every whitespace run as one hyphen; the
\* name "Test" gives the slug "test".
ProductSlugDerivedFromName ==
    (req.op = "create" /\ req.coll = "products" /\ res.statusCode = 201
        /\ req.body.slug = Undef) =>
        LET name == req.body.name
            slug == res.data.slug
            shown == SlugPositions(name)
        IN  /\ name = sTest => slug = <<"t", "e", "s", "t">>
            /\ \A j \in 1..Len(slug) : slug[j] \notin {"T", "A", "A_ACUTE", " ", "\t", "!"}
            /\ (\A i \in 1..Len(name) : name[i] # "!") =>
                  /\ Len(slug) = Cardinality(shown)
                  /\ \A i \in shown :
                        slug[Cardinality({k \in shown : k <= i})] = SlugCharOf(name[i])

\* the product named "A b" was created and returned with the slug "a-b"
ProductSlugOfTwoWordsReached ==
    /\ req.op = "create"
    /\ req.coll = "products"
    /\ res.statusCode = 201
    /\ req.body.name = sAb
    /\ req.body.slug = Undef
    /\ res.data.slug = <<"a", "-", "b">>


\* the requested file name is in no directory at all
MissingEverywhere == \A f \in disk : f.name # imgReq.r.name

ImageContentTypes == {"image/jpeg", "image/png", "image/gif", "image/webp"}

\* C5 as the specification states it: a request for an image whose file
\* is in no candidate directory is always answered with HTTP 200 and an
\* image content-type, by every resolver
MissingImageAlwaysAnswered200 ==
    (imgReq.resolver # "none" /\ MissingEverywhere)
        => (imgRes.status = 200 /\ imgRes.contentType \in ImageContentTypes)

\* the Express content server has answered a request for a missing image
\* with its error page
MissingImageAnswered500Reached ==
    /\ imgReq.resolver = "server-express"
    /\ imgReq.r.path = "/images/does-not-exist.jpg"
    /\ MissingEverywhere
    /\ imgRes.status = 500

\* C8 as the specification states it: a request for a missing image is
\* answered with 200, Content-Type image/png and the embedded placeholder
MissingImageIsPngPlaceholder ==
    (imgReq.resolver \in {"image-proxy", "workaround"} /\ MissingEverywhere)
        => /\ imgRes.status = 200
           /\ imgRes.contentType = "image/png"
           /\ imgRes.body = "placeholder"

\* a default image is in one of the directories the image proxy searches
DefaultImageOnDisk ==
    \E f \in disk :
        /\ f.name.stem \in {"default", "placeholder", "default-image"}
        /\ f.name.ext = ".jpg"
        /\ f.dir \in {<<"images">>, <<"public", "images">>, <<"uploads">>,
                      <<"public", "uploads">>, <<"images", "uploads">>,
                      <<"public", "images", "uploads">>, <<"/tmp", "uploads">>}

\* the request reaches the workaround router's rule for /images/<digits>...jpg
OnlyDigitRuleCatches ==
    /\ imgReq.r.digitsJpg
    /\ ~imgReq.r.listed
    /\ ~imgReq.r.digits13

\* C8: a request for a missing image is answered with 200; the image proxy
\* sends a default image file as image/jpeg when one exists and the
\* embedded placeholder as image/png otherwise; the workaround router sends
\* the embedded placeholder, as image/jpeg under its rule for
\* /images/<digits>...jpg and as image/png otherwise
MissingImagePlaceholderUnlessDefault ==
    /\ (imgReq.resolver = "image-proxy" /\ MissingEverywhere) =>
          /\ imgRes.status = 200
          /\ IF DefaultImageOnDisk
             THEN /\ imgRes.body = "file"
                  /\ imgRes.file \in disk
                  /\ imgRes.file.name.stem \in {"default", "placeholder", "default-image"}
                  /\ imgRes.contentType = "image/jpeg"
             ELSE /\ imgRes.body = "placeholder"
                  /\ imgRes.contentType = "image/png"
    /\ (imgReq.resolver = "workaround" /\ MissingEverywhere) =>
          /\ imgRes.status = 200
          /\ imgRes.body = "placeholder"
          /\ imgRes.contentType =
                IF OnlyDigitRuleCatches THEN "image/jpeg" ELSE "image/png"

\* the image proxy has answered a request for a missing image with a
\* default image file
MissingImageServedDefaultReached ==
    /\ imgReq.resolver = "image-proxy"
    /\ imgReq.r.path = "/images/does-not-exist.jpg"
    /\ MissingEverywhere
    /\ imgRes.body = "file"
    /\ imgRes.file.name = Name("placeholder", ".jpg")


\* both clients' updates of one product were answered 200
BothUpdatesSucceeded ==
    /\ \A c \in Clients : inflight[c].stage = "done" /\ inflight[c].status = 200
    /\ inflight["A"].id = inflight["B"].id

\* the product both clients updated, as the store holds it
UpdatedProduct == RecordOf(Collection(files, NODE_ENV, "products"), inflight["A"].id)

StoredIn(f, coll) ==
    IF f.kind = "json" /\ coll \in f.keys
    THEN {f.doc[coll][i] : i \in 1..Len(f.doc[coll])}
    ELSE {}

\* the record is in the collection of the database file next to the server
\* or of the one in the temporary directory
HeldOnDisk(fs, coll, rec) == \E p \in {"app", "tmp"} : rec \in StoredIn(fs[p], coll)

\* C11 as the specification states it, for the creates: no create reports
\* success after its save failed, so a create answered with a success
\* status has left its record in a database file
CreateSuccessMeansSaved ==
    [][ (req'.op = "create" /\ res'.status \in {200, 201})
            => HeldOnDisk(files', req'.coll, res'.data) ]_vars

\* a product create was answered 201 and no database file holds the product
ProductCreatedButNotSavedReached ==
    /\ req.op = "create"
    /\ req.coll = "products"
    /\ res.status = 201
    /\ ~HeldOnDisk(files, "products", res.data)

\* C12 as the specification states it: a request stores no file whose
\* original name lacks an allow-listed image extension, and a request that
\* carries such a file is answered with an error, stores nothing and leaves
\* every database file as it was.
UploadStoredOnlyIfImage ==
    [][ /\ \A f \in disk' \ disk :
              f.name.ext \in {".jpg", ".jpeg", ".png", ".gif", ".webp"}
        /\ ~uploadAccepted(req'.upl) =>
              /\ res'.status \in 400..599
              /\ disk' = disk
              /\ files' = files ]_vars

\* the json-server variant stored an uploaded doc.pdf and created a product
\* that lists it among its images
ServerStoredNonImageReached ==
    /\ server = "json-server"
    /\ req.op = "create"
    /\ req.upl = <<"doc.pdf">>
    /\ res.status = 201
    /\ res.data.images = ImgArray(<<"/uploads/doc.pdf">>)
    /\ File(SERVER_UPLOADS_DIR, Name("doc", ".pdf")) \in disk
    /\ HeldOnDisk(files, "products", res.data)

\* on the Express content server the same upload is turned away: no file of
\* the request is on disk and the database files are untouched
ExpressRejectsNonImage ==
    [][ (Express /\ ~uploadAccepted(req'.upl)) =>
              /\ res'.status = 500
              /\ disk' = disk
              /\ files' = files ]_vars

\* C13 as the specification states it: a create whose body omits name, with
\* no upload turned away and no write failing, is answered with a success
\* status and returns a record whose name is the empty string.
CreateWithoutNameStoresEmptyName ==
    [][ (/\ req'.op = "create"
         /\ req'.body.name = Undef
         /\ uploadAccepted(req'.upl)
         /\ faults' = faults)
            => /\ res'.status \in {200, 201}
               /\ res'.data.name = <<>> ]_vars

\* a product create that omitted name was answered 500 on the Express
\* content server although no write failed, and no database file changed
ProductCreateWithoutNameFailedReached ==
    /\ Express
    /\ req.op = "create"
    /\ req.coll = "products"
    /\ req.body.name = Undef
    /\ res.status = 500
    /\ faults = 0

\* C14 as the specification states it: a get-by-id whose id matches no
\* record of the collection is answered 404 and returns no record.
GetOfUnknownIdIsNotFound ==
    [][ LET before == StoreDoc(files, NODE_ENV, server, DATABASE)
        IN  (req'.op = "get" /\ req'.id \notin TargetIds(before, req'.coll)) =>
                /\ res'.status = 404
                /\ res'.dataKind # "record" ]_vars

\* a team member that does not exist was asked for and the answer was 200
\* with the default member under the requested id
GetOfUnknownTeamMemberServedReached ==
    /\ req.op = "get"
    /\ req.coll = "team"
    /\ req.id \notin Ids(StoreDoc(files, NODE_ENV, server, DATABASE).team)
    /\ res.status = 200
    /\ res.data = defaultMember(req.id)

\* every get-by-id other than the team's answers 404 for an unknown id
OtherGetsOfUnknownIdAreNotFound ==
    [][ LET before == StoreDoc(files, NODE_ENV, server, DATABASE)
        IN  (/\ req'.op = "get"
             /\ req'.coll # "team"
             /\ req'.id \notin TargetIds(before, req'.coll)) =>
                /\ res'.status = 404
                /\ res'.dataKind # "record" ]_vars

\* the first of the image proxy's candidate directories that holds the
\* requested file name; NoFile when none does
FoundPrimary == FirstExisting(disk, getImageSearchPaths(imgReq.r.name))

\* C15 as the specification states it: when the requested file name exists
\* in a candidate directory, the image proxy and the workaround router
\* mounted ahead of it answer with that file, the proxy with the one of the
\* first directory of its list, and never with a default or a placeholder.
ExistingImageIsServed ==
    (imgReq.resolver \in {"image-proxy", "workaround"} /\ FoundPrimary # NoFile) =>
        /\ imgRes.body = "file"
        /\ imgRes.file.name = imgReq.r.name
        /\ imgReq.resolver = "image-proxy" => imgRes.file = FoundPrimary

\* the workaround router answered /images/123.jpg with the synthesized
\* placeholder while images/123.jpg was on disk
ExistingImageAnsweredPlaceholderReached ==
    /\ imgReq.resolver = "workaround"
    /\ imgReq.r.path = "/images/123.jpg"
    /\ File(<<"images">>, Name("123", ".jpg")) \in disk
    /\ imgRes.body = "placeholder"
    /\ imgRes.contentType = "image/jpeg"

\* the image proxy on its own serves the first existing candidate
ImageProxyServesFoundPrimary ==
    (imgReq.resolver = "image-proxy" /\ FoundPrimary # NoFile) =>
        /\ imgRes.body = "file"
        /\ imgRes.file = FoundPrimary

\* C16: on a path under /api/ the body res.json sends carries statusCode,
\* message and data; a payload without a statusCode is wrapped with the
\* response's status, the message 'Success' and the payload as data; a
\* payload with a statusCode keeps its statusCode, message and data; and a
\* data that is missing or null is sent as an empty array.
ApiJsonCarriesEnvelope ==
    (ret.fn = "res.json" /\ pathStartsWithApi(ret.path)) =>
        /\ res.dataKind \notin {"none", "null"}
        /\ ret.payload.statusCode = 0 =>
              /\ res.statusCode = ret.status
              /\ res.message = "Success"
              /\ res.dataKind = ret.payload.dataKind
              /\ res.data = ret.payload.data
        /\ ret.payload.statusCode # 0 =>
              /\ res.statusCode = ret.payload.statusCode
              /\ res.message = ret.payload.message
              /\ IF ret.payload.dataKind \in {"none", "null"}
                 THEN res.dataKind = "array" /\ res.data = <<>>
                 ELSE res.dataKind = ret.payload.dataKind /\ res.data = ret.payload.data

\* a 404 body without data was sent on /api/products/1 with an empty array
\* as its data
ApiJsonWithoutDataReached ==
    /\ ret.fn = "res.json"
    /\ ret.path = "/api/products/1"
    /\ ret.payload = Body(404, "Product not found", "none", BlankRec)
    /\ res.statusCode = 404
    /\ res.dataKind = "array"
    /\ res.data = <<>>

UploadedFilesOf(rec) ==
    uploadFiles(rec.image) \cup uploadFiles(rec.url)
    \cup UNION {uploadFiles(rec.images.v[i]) : i \in 1..Len(rec.images.v)}

\* C18 as the specification states it: after a delete answered 200 during
\* which no unlink failed, no file of the upload directory that the
\* deleted record named is left on disk.
DeleteRemovesUploadedFiles ==
    [][ LET before == StoreDoc(files, NODE_ENV, server, DATABASE)
        IN  (/\ Express
             /\ req'.op = "delete"
             /\ req'.coll \in {"products", "services", "experiences", "team", "news", "images"}
             /\ req'.id \in TargetIds(before, req'.coll)
             /\ req'.unlink = "ok"
             /\ res'.status = 200)
                => UploadedFilesOf(RecordOf(before[req'.coll], req'.id)) \cap disk' = {} ]_vars

\* a product was deleted with success and without a file error, and the
\* file of the upload directory its images named is still on disk
ProductDeletedUploadLeftReached ==
    /\ Express
    /\ req.op = "delete"
    /\ req.coll = "products"
    /\ req.unlink = "ok"
    /\ res.status = 200
    /\ res.data.images = ImgArray(<<"/images/uploads/a.jpg">>)
    /\ File(UPLOADS_DIR, Name("a", ".jpg")) \in disk
    /\ File(<<"images", "uploads">>, Name("a", ".jpg")) \notin disk

\* C19 as the specification states it, for the creates of the Express
\* content server: after a create answered with success the primary
\* database file holds a document and the copy in the parent directory
\* holds the same document.
SuccessMeansPrimaryAndSiblingSaved ==
    [][ (/\ Express
         /\ req'.op = "create"
         /\ res'.status \in {200, 201})
            => /\ files'[dbPath(NODE_ENV)].kind = "json"
               /\ files'["parent"] = files'[dbPath(NODE_ENV)] ]_vars

\* a team member was created with success and no write failed; the record
\* is in the file next to the server and the parent directory has no copy
TeamCreatedWithoutSiblingReached ==
    /\ Express
    /\ NODE_ENV = "development"
    /\ req.op = "create"
    /\ req.coll = "team"
    /\ res.status = 201
    /\ faults = 0
    /\ res.data \in StoredIn(files["app"], "team")
    /\ files["parent"] = MissingFile

\* C20: once the first CORS middleware has run, the response carries
\* Access-Control-Allow-Origin '*' and the other Access-Control-Allow
\* headers; an OPTIONS request is ended with status 200, next was not
\* called and no later layer ran; a request of any other method had next
\* called exactly once and is not ended by the middleware.
PreflightEndsAtFirstMiddleware ==
    (ret.fn = "request" /\ ret.stage # "first") =>
        /\ ret.headers.allowOrigin = "*"
        /\ ret.headers.allowMethods # ""
        /\ ret.headers.allowHeaders # ""
        /\ IF ret.method = "OPTIONS"
           THEN /\ ret.status = 200
                /\ ret.ended
                /\ ret.nextCalls = 0
                /\ ret.ran = <<>>
                /\ ret.stage = "done"
           ELSE /\ ret.nextCalls = 1
                /\ ret.stage = "later" => ~ret.ended /\ ret.ran = <<>>
                /\ ret.stage = "done" => ret.ran = <<"later">>

\* a preflight for /api/products from the site's origin was answered by
\* the first middleware of the Express content server
PreflightAnsweredReached ==
    /\ ret.fn = "request"
    /\ ret.stack = "server-express"
    /\ ret.method = "OPTIONS"
    /\ ret.path = "/api/products"
    /\ ret.origin = "https://thontrangliennhat.com"
    /\ ret.status = 200
    /\ ret.ended
    /\ ret.headers.allowOrigin = "*"

\* the ids of a list, in its order
IdsInOrder(list) == [i \in 1..Len(list) |-> list[i].id]

\* the stored products that a query's category and featured select, by the
\* fields the list returns for them
Selected(products, query) ==
    {i \in 1..Len(products) :
        LET p == listedFields(products[i])
        IN  /\ query.category # 0 =>
                  (p.categoryId = query.category \/ p.child_nav_id = query.category)
            /\ query.featured = "true" => p.isFeatured}

\* C21 as the specification states it: the list returns the stored
\* products and only those.  Without a query the returned ids are the
\* stored ids in their order; with category or featured the returned
\* records are the stored ones the filter selects; with limit n they are
\* the first n of these.
ListReturnsStoredProducts ==
    (req.op = "list") =>
        LET stored == Collection(files, NODE_ENV, "products")
            sel == Selected(stored, req.query)
            n == IF req.query.limit # 0 /\ req.query.limit < Cardinality(sel)
                 THEN req.query.limit ELSE Cardinality(sel)
        IN  /\ Len(res.data) = n
            /\ \A k \in 1..Len(res.data) :
                  \E i \in sel :
                     /\ res.data[k] = listedFields(stored[i])
                     /\ Cardinality({j \in sel : j < i}) = k - 1

\* the store holds no product and a list without query returned the two
\* default products
EmptyStoreListedDefaultsReached ==
    /\ req.op = "list"
    /\ req.query = NoQuery
    /\ Collection(files, NODE_ENV, "products") = <<>>
    /\ IdsInOrder(res.data) = <<1, 2>>

\* when the store holds a product the list is as the specification says
NonEmptyStoreListIsExact ==
    (req.op = "list" /\ Collection(files, NODE_ENV, "products") # <<>>) =>
        LET stored == Collection(files, NODE_ENV, "products")
            sel == Selected(stored, req.query)
            n == IF req.query.limit # 0 /\ req.query.limit < Cardinality(sel)
                 THEN req.query.limit ELSE Cardinality(sel)
        IN  /\ Len(res.data) = n
            /\ \A k \in 1..Len(res.data) :
                  \E i \in sel :
                     /\ res.data[k] = listedFields(stored[i])
                     /\ Cardinality({j \in sel : j < i}) = k - 1

\* the response is one of the generic default files, sent in place of the
\* requested file
ServedDefaultFile ==
    /\ imgRes.body = "file"
    /\ imgRes.file.name # imgReq.r.name
    /\ \E i \in 1..Len(defaultImages) : imgRes.file.name = defaultImages[i]

\* C22 as the specification states it: the image proxy and the workaround
\* router try the requested file, then the default files, then the
\* synthesized placeholder: a default file is served only if the requested
\* file is in no candidate directory, and the placeholder only if, in
\* addition, no default file is in any candidate directory.
OutcomesTriedInOrder ==
    (imgReq.resolver \in {"image-proxy", "workaround"}) =>
        /\ ServedDefaultFile => FoundPrimary = NoFile
        /\ imgRes.body = "placeholder" =>
              (FoundPrimary = NoFile /\ findDefaultImage(disk) = NoFile)

\* the workaround router answered with the synthesized placeholder a
\* request whose file is in no directory while a default file was in a
\* candidate directory
PlaceholderBeforeDefaultReached ==
    /\ imgReq.resolver = "workaround"
    /\ imgReq.r.path = "/images/does-not-exist.jpg"
    /\ MissingEverywhere
    /\ findDefaultImage(disk) # NoFile
    /\ imgRes.body = "placeholder"

\* the image proxy on its own tries the three outcomes in order
ImageProxyTriesInOrder ==
    (imgReq.resolver = "image-proxy") =>
        /\ ServedDefaultFile => FoundPrimary = NoFile
        /\ imgRes.body = "placeholder" =>
              (FoundPrimary = NoFile /\ findDefaultImage(disk) = NoFile)
        /\ (FoundPrimary = NoFile /\ findDefaultImage(disk) # NoFile) =>
              (imgRes.body = "file" /\ imgRes.file = findDefaultImage(disk))

\* the document a load makes of a file it cannot parse
DefaultDocument == [EmptyDoc EXCEPT !.navigation = DefaultNavigation]

\* C23: a load that finds the primary file malformed, as an interrupted
\* save leaves it, returns the default document and, when its write
\* succeeds, leaves the default document in the primary file; every load
\* after it returns the default document, without the records stored
\* before.
MalformedLoadResetsStore ==
    [][(ret'.fn = "getDatabase" /\ files[dbPath(NODE_ENV)].kind = "malformed") =>
          /\ ret'.db = DefaultDocument
          /\ ret'.primary = "ok" =>
                files'[dbPath(NODE_ENV)] = JsonFile(DefaultDocument)
          /\ getDatabase(files', NODE_ENV, "ok").db = DefaultDocument
          /\ getDatabase(files', NODE_ENV, "eacces").db = DefaultDocument]_vars

\* a load has found the primary file malformed and left the default
\* document in it, while the sibling copy still holds a record
MalformedLoadResetReached ==
    /\ ret.fn = "getDatabase"
    /\ ret.before = MalformedFile
    /\ ret.db = DefaultDocument
    /\ files[dbPath(NODE_ENV)] = JsonFile(DefaultDocument)
    /\ files.parent.kind = "json"
    /\ Len(files.parent.doc.products) > 0

\* an interrupted save leaves the primary file malformed where it held
\* records
SaveInterruptedOverRecordsReached ==
    /\ ret.fn = "writeDatabase interrupted"
    /\ ret.before.kind = "json"
    /\ Len(ret.before.doc.products) > 0
    /\ files[dbPath(NODE_ENV)] = MalformedFile

\* the error middleware has answered a request that matched no route
UnmatchedAnswered ==
    /\ ret.fn = "error"
    /\ ret.from = "unmatched"
    /\ ret.stage = "done"
    /\ ret.method # "OPTIONS"

\* C24 as the specification states it: every request other than OPTIONS
\* that matches no route is answered 404 with the error type NOT_FOUND,
\* whatever its URL, and errorHandler answers NOT_FOUND with 404,
\* VALIDATION with 400, AUTHORIZATION and CORS with 403, and DATABASE and
\* an error without type with 500.
UnmatchedIsNotFound ==
    /\ UnmatchedAnswered => (res.status = 404 /\ res.errorType = "NOT_FOUND")
    /\ (ret.fn = "error" /\ ret.stage = "done" /\ res.body = "json") =>
          res.status = (CASE res.errorType = "NOT_FOUND" -> 404
                          [] res.errorType = "VALIDATION" -> 400
                          [] res.errorType \in {"AUTHORIZATION", "CORS"} -> 403
                          [] OTHER -> 500)

\* GET /CORS matched no route and was answered 403 with the type CORS
UnmatchedAnsweredCorsReached ==
    /\ UnmatchedAnswered
    /\ ret.method = "GET"
    /\ ret.url = <<"/">> \o sCORS
    /\ res.status = 403
    /\ res.errorType = "CORS"

\* an unmatched request whose URL has none of the words corsErrorHandler
\* looks for is answered 404 NOT_FOUND, and errorHandler's statuses are
\* those of the specification
UnmatchedWithoutCorsWordIsNotFound ==
    /\ (/\ UnmatchedAnswered
        /\ ~includes(ret.url, sCORS)
        /\ ~includes(ret.url, sCrossOrigin)
        /\ ~includes(ret.url, sAccessControlAllowOrigin)) =>
          (res.status = 404 /\ res.errorType = "NOT_FOUND")
    /\ (ret.fn = "error" /\ ret.stage = "done" /\ res.body = "json") =>
          res.status = (CASE res.errorType = "NOT_FOUND" -> 404
                          [] res.errorType = "VALIDATION" -> 400
                          [] res.errorType \in {"AUTHORIZATION", "CORS"} -> 403
                          [] OTHER -> 500)

\* C25 as the specification states it: GET /api/parent-navs/slug/tin-tuc
\* is answered by the endpoint for the news categories, with its seven
\* categories and the message 'News categories fetched successfully', and
\* not by the handler of /api/parent-navs/slug/:slug.
TinTucAnsweredByNewsEndpoint ==
    (req.op = "get-slug" /\ req.body.slug = sTinTucSlug) =>
        /\ res.message = "News categories fetched successfully"
        /\ Len(res.data) = 7

\* GET /api/parent-navs/slug/tin-tuc was answered 'Success' with the one
\* child the store's navigation holds under the slug tin-tuc
TinTucAnsweredBySlugHandlerReached ==
    /\ req.op = "get-slug"
    /\ req.body.slug = sTinTucSlug
    /\ res.message = "Success"
    /\ Len(res.data) = 1
    /\ res.data[1].id = 4

\* the news endpoint answers no request at all
NewsEndpointNeverAnswers ==
    (req.op = "get-slug") => res.message = "Success"

\* the document a PATCH read, and the one it left: the navigation routes
\* write the file next to the server, the news route saves through
\* writeDatabase
PatchedBefore == getDatabase(files, NODE_ENV, "ok").db

\* C26: a PATCH of a parent, a child or a news item that succeeds leaves
\* the record's id as it was, whatever id the body carries: the record
\* returned and the record stored at its place have the id of the URL and
\* the ids of its list are the same as before.  After the PATCH of a child
\* its parentId is the id of the parent whose children hold it, whatever
\* parentId the body carries, and that parent's list holds it still.
PatchKeepsIdAndParent ==
    [][(req'.op = "update" /\ res'.statusCode = 200
        /\ req'.coll \in {"navigation", "child-navs", "news"}) =>
          LET before == PatchedBefore
              id == req'.id
          IN  /\ res'.data.id = id
              /\ req'.coll = "navigation" =>
                    LET after == files'.app.doc.navigation
                    IN  /\ IdsInOrder(after) = IdsInOrder(before.navigation)
                        /\ after[findIndex(before.navigation, id)] = res'.data
              /\ req'.coll = "news" =>
                    LET after == getDatabase(files', NODE_ENV, "ok").db.news
                    IN  /\ IdsInOrder(after) = IdsInOrder(before.news)
                        /\ after[findIndex(before.news, id)] = res'.data
              /\ req'.coll = "child-navs" =>
                    LET after == files'.app.doc.navigation
                        i == parentOfChild(before.navigation, id)
                    IN  /\ IdsInOrder(after) = IdsInOrder(before.navigation)
                        /\ \A j \in 1..Len(after) :
                              IdsInOrder(after[j].children)
                                  = IdsInOrder(before.navigation[j].children)
                        /\ parentOfChild(after, id) = i
                        /\ res'.data.parentId = after[i].id
                        /\ after[i].children[findIndex(before.navigation[i].children, id)]
                              = res'.data]_vars

\* the child 1 of parent 1 was patched with a body that names id 2 and
\* parentId 2, and is stored with id 1 and parentId 1
ChildPatchedWithForeignIdsReached ==
    /\ req.op = "update"
    /\ req.coll = "child-navs"
    /\ req.id = 1
    /\ req.body.id = 2
    /\ req.body.parentId = 2
    /\ res.statusCode = 200
    /\ res.data.id = 1
    /\ res.data.parentId = 1
    /\ files.app.doc.navigation[1].children[1] = res.data

\* a parent was patched with a body that names another id
ParentPatchedWithForeignIdReached ==
    /\ req.op = "update"
    /\ req.coll = "navigation"
    /\ req.id = 1
    /\ req.body.id = 2
    /\ res.statusCode = 200
    /\ res.data.id = 1

\* a news item was patched with a body that names another id
NewsPatchedWithForeignIdReached ==
    /\ req.op = "update"
    /\ req.coll = "news"
    /\ req.id = 1
    /\ req.body.id = 2
    /\ res.statusCode = 200
    /\ res.data.id = 1

\* the record is in the collection of the document the next load returns
ReadBack(fs, env, coll, rec) ==
    LET list == Collection(fs, env, coll)
    IN  \E i \in 1..Len(list) : list[i] = rec

\* C27 as the specification states it, for the creates and deletes of the
\* Express content server: in every environment, after a handler reports
\* success the next load returns a document with the effect, the created
\* record in its collection or the deleted id gone from it.
SuccessIsReadBack ==
    (Express /\ res.status \in {200, 201}) =>
        /\ req.op = "create" => ReadBack(files, NODE_ENV, req.coll, res.data)
        /\ req.op = "delete" =>
              req.id \notin TargetIds(getDatabase(files, NODE_ENV, "ok").db, req.coll)

\* in production a team member was created with success and no write
\* failed; the file next to the server holds the record and the next load,
\* which reads the file of the temporary directory, does not return it
TeamCreatedNotReadBackReached ==
    /\ Express
    /\ NODE_ENV = "production"
    /\ req.op = "create"
    /\ req.coll = "team"
    /\ res.status = 201
    /\ faults = 0
    /\ res.data \in StoredIn(files["app"], "team")
    /\ ~ReadBack(files, NODE_ENV, "team", res.data)

\* in production a parent of the navigation was deleted with success and
\* the next load still returns it
ParentNavDeletedStillLoadedReached ==
    /\ Express
    /\ NODE_ENV = "production"
    /\ req.op = "delete"
    /\ req.coll = "navigation"
    /\ res.status = 200
    /\ faults = 0
    /\ req.id \in Ids(Collection(files, NODE_ENV, "navigation"))

\* outside production, and in production for the handlers that save
\* through writeDatabase, a success without a failed write is read back;
\* the parents of the navigation are left out, because a load replaces an
\* empty navigation by the default one
SuccessIsReadBackWhereOneFileIsUsed ==
    (/\ Express
     /\ res.status \in {200, 201}
     /\ faults = 0
     /\ req.coll # "navigation"
     /\ \/ NODE_ENV = "development"
        \/ req.coll = "products"
        \/ req.coll = "news" /\ req.op = "delete") =>
        /\ req.op = "create" => ReadBack(files, NODE_ENV, req.coll, res.data)
        /\ req.op = "delete" =>
              req.id \notin TargetIds(getDatabase(files, NODE_ENV, "ok").db, req.coll)

\* the document a load makes of one of the database files
LoadedFrom(fs, path) ==
    IF fs[path].kind = "nonobject" THEN CatchDefaultDoc ELSE Normalize(fs[path])

\* C28 as the specification states it: when a create, update or delete is
\* answered with a status of the 500 class, the store is as it was before
\* the request: the database files load to the same documents and the
\* DATABASE of the json-server variant is the same.
FailureLeavesStoreUnchanged ==
    [][(req'.op \in {"create", "update", "delete"} /\ res'.status \in 500..599) =>
          /\ LoadedFrom(files', "app") = LoadedFrom(files, "app")
          /\ LoadedFrom(files', "tmp") = LoadedFrom(files, "tmp")
          /\ DATABASE' = DATABASE]_vars

\* the json-server variant answered the delete of product 1 with 500 after
\* its save failed; the database file still holds the product and DATABASE
\* does not
ServerDeleteFailedButForgottenReached ==
    /\ JsonServer
    /\ req.op = "delete"
    /\ req.id = 1
    /\ res.status = 500
    /\ 1 \in Ids(LoadedFrom(files, "app").products)
    /\ 1 \notin Ids(DATABASE.products)

\* the Express content server answered a service create with 500 after the
\* copy to the parent directory failed, and the file next to the server
\* holds one service more than the two it had
ServiceCreateFailedButStoredReached ==
    /\ Express
    /\ req.op = "create"
    /\ req.coll = "services"
    /\ res.status = 500
    /\ Len(LoadedFrom(files, "app").services) = 3

\* the deletes of the Express content server answered with a 500 status
\* leave the database files as they load
ExpressDeleteFailureLeavesFiles ==
    [][(Express /\ req'.op = "delete" /\ res'.status \in 500..599) =>
          /\ LoadedFrom(files', "app") = LoadedFrom(files, "app")
          /\ LoadedFrom(files', "tmp") = LoadedFrom(files, "tmp")]_vars

\* no two records of the list have the same id
DistinctIds(list) ==
    \A i \in 1..Len(list) : \A j \in 1..Len(list) : (i # j) => list[i].id # list[j].id

\* C29: starting from collections whose ids are distinct and positive,
\* after any sequence of creates and deletes no two records of a collection
\* have the same id, in any database file and in the json-server variant's
\* DATABASE; an id may be given again after the record with the largest id
\* was deleted.
IdsStayDistinct ==
    \A coll \in ArrayKeys :
        /\ \A path \in {"app", "tmp", "parent"} :
              /\ DistinctIds(LoadedFrom(files, path)[coll])
              /\ \A i \in 1..Len(LoadedFrom(files, path)[coll]) :
                    LoadedFrom(files, path)[coll][i].id > 0
        /\ DistinctIds(DATABASE[coll])

\* a record was created with id 2 after the record with id 2, then the
\* largest, had been deleted: the collection holds ids 1 and 2 again
IdReusedAfterDeleteReached ==
    /\ Express
    /\ NODE_ENV = "development"
    /\ req.op = "create"
    /\ res.status = 201
    /\ res.data.id = 2
    /\ files["app"] # JsonFile(FullDoc)
    /\ Len(Collection(files, NODE_ENV, req.coll)) = 2
    /\ Ids(Collection(files, NODE_ENV, req.coll)) = {1, 2}

\* a stored user has the email and the password of the login request
CredentialsMatch ==
    LET users == Collection(files, NODE_ENV, "users")
    IN  \E i \in 1..Len(users) :
            /\ users[i].email = req.body.email
            /\ users[i].password = req.body.password

\* C30 as the specification states it: a login is answered 200 with tokens
\* only when a user with the given email exists and the password sent is
\* that user's stored password, and 401 'Invalid credentials' for every
\* other pair.
LoginOnlyWithStoredPassword ==
    (req.op = "login") =>
        IF CredentialsMatch
        THEN res.status = 200 /\ res.data.accessToken = "fake-token-123456"
        ELSE res.status = 401 /\ res.message = "Invalid credentials"

\* the login of a user whose stored password is s3cret was answered 200
\* with tokens for the password dat12345
LoginWithFixedPasswordReached ==
    /\ req.op = "login"
    /\ req.body.email = "admin@example.com"
    /\ req.body.password = "dat12345"
    /\ res.status = 200
    /\ Len(Collection(files, NODE_ENV, "users")) > 0
    /\ Collection(files, NODE_ENV, "users")[1] = User(1, "admin@example.com", "s3cret")
    /\ res.data.accessToken = "fake-token-123456"
    /\ res.data.user.id = 1

\* for every password but the two fixed ones the login is as the
\* specification says
LoginWithOtherPasswordsIsChecked ==
    (req.op = "login" /\ req.body.password \notin {"password", "dat12345"}) =>
        IF CredentialsMatch
        THEN res.status = 200 /\ res.data.accessToken = "fake-token-123456"
        ELSE res.status = 401 /\ res.message = "Invalid credentials"

====
